---- MODULE Spec2Model ----
(***************************************************************************)
(* A model of the static linker of xiaoxuan-core-linker                    *)
(* (src/src/static_linker.rs).                                             *)
(*                                                                         *)
(* static_link is a pure function from a list of object units              *)
(* (ImageCommonEntry) to one merged ImageCommonEntry or a LinkerError.     *)
(* The state is the input (submodule_entries, the finalize flag), the      *)
(* remap vectors static_link builds on the way, and its result.  The one   *)
(* action StaticLink is the whole function.  Vectors are TLA+ sequences;   *)
(* every INDEX stored in a table, a remap vector or a bytecode slot is     *)
(* 0-based as in the source, so entry i of a vector v is v[i + 1] (At).    *)
(***************************************************************************)
EXTENDS Integers, Sequences, FiniteSets, TLC

(***************************************************************************)
(* Vec helpers                                                             *)
(***************************************************************************)

\* Option::None of `Iterator::position`
None == -1

\* v[i] of the source, for a 0-based index i
At(v, i) == v[i + 1]

\* (start..end).collect::<Vec<usize>>()
RangeVec(start, end) == [k \in 1..(end - start) |-> start + k - 1]

\* iter().position(|item| Test(item)): the 0-based index of the FIRST match
Position(tests) ==
    IF \E k \in 1..Len(tests) : tests[k]
    THEN (CHOOSE k \in 1..Len(tests) : tests[k] /\ \A j \in 1..(k - 1) : ~tests[j]) - 1
    ELSE None

\* concatenation of a vector of vectors (flat_map / repeated extend)
RECURSIVE Flatten(_)
Flatten(vs) == IF vs = <<>> THEN <<>> ELSE Head(vs) \o Flatten(Tail(vs))

\* the sequences without repetition over a set, of length at most n
SeqsNoRep(S, n) ==
    UNION {{s \in [1..k -> S] : \A i, j \in 1..k : i # j => s[i] # s[j]} : k \in 0..n}

(***************************************************************************)
(* Step 1, 2: types and local-variable lists                               *)
(***************************************************************************)

\* one source unit merged into entries_merged with the closure at
\* static_linker.rs:295-297 as the equality test
RECURSIVE merge_type_source(_, _, _)
merge_type_source(entries_merged, entries_source, indices) ==
    IF entries_source = <<>>
    THEN [entries_merged |-> entries_merged, indices |-> indices]
    ELSE LET entry_source == Head(entries_source)
             pos_merged_opt ==
                 Position([n \in 1..Len(entries_merged) |->
                     LET item == entries_merged[n]
                     IN  /\ item.params = entry_source.params
                         /\ item.results = entry_source.results])
         IN  IF pos_merged_opt # None
             THEN merge_type_source(entries_merged, Tail(entries_source),
                                    Append(indices, pos_merged_opt))
             ELSE merge_type_source(Append(entries_merged, entry_source),
                                    Tail(entries_source),
                                    Append(indices, Len(entries_merged)))

RECURSIVE merge_type_remains(_, _, _)
merge_type_remains(entries_merged, remap_list, remains) ==
    IF remains = <<>>
    THEN [entries |-> entries_merged, remap |-> remap_list]
    ELSE LET r == merge_type_source(entries_merged, Head(remains), <<>>)
         IN  merge_type_remains(r.entries_merged, Append(remap_list, r.indices),
                                Tail(remains))

\* merge_type_entries without the search for an equal entry: the lists are
\* concatenated
merge_type_entries_Concat(type_entries_list) ==
    [entries |-> Flatten(type_entries_list),
     remap |-> [u \in 1..Len(type_entries_list) |->
                   LET start == Len(Flatten(SubSeq(type_entries_list, 1, u - 1)))
                   IN  RangeVec(start, start + Len(type_entries_list[u]))]]

\* the first list is copied as it is, the remains are merged into it
merge_type_entries(type_entries_list) ==
    LET first == type_entries_list[1]
    IN  merge_type_remains(first, <<RangeVec(0, Len(first))>>, Tail(type_entries_list))

RECURSIVE merge_local_variable_list_source(_, _, _)
merge_local_variable_list_source(entries_merged, entries_source, indices) ==
    IF entries_source = <<>>
    THEN [entries_merged |-> entries_merged, indices |-> indices]
    ELSE LET entry_source == Head(entries_source)
             pos_merged_opt ==
                 Position([n \in 1..Len(entries_merged) |->
                     LET item == entries_merged[n]
                     IN  item.local_variable_entries = entry_source.local_variable_entries])
         IN  IF pos_merged_opt # None
             THEN merge_local_variable_list_source(entries_merged, Tail(entries_source),
                                                   Append(indices, pos_merged_opt))
             ELSE merge_local_variable_list_source(Append(entries_merged, entry_source),
                                                   Tail(entries_source),
                                                   Append(indices, Len(entries_merged)))

RECURSIVE merge_local_variable_list_remains(_, _, _)
merge_local_variable_list_remains(entries_merged, remap_list, remains) ==
    IF remains = <<>>
    THEN [entries |-> entries_merged, remap |-> remap_list]
    ELSE LET r == merge_local_variable_list_source(entries_merged, Head(remains), <<>>)
         IN  merge_local_variable_list_remains(r.entries_merged,
                                               Append(remap_list, r.indices),
                                               Tail(remains))

merge_local_variable_list_entries(local_variable_list_entries_list) ==
    LET first == local_variable_list_entries_list[1]
    IN  merge_local_variable_list_remains(first, <<RangeVec(0, Len(first))>>,
                                          Tail(local_variable_list_entries_list))

(***************************************************************************)
(* Step 3: import modules (and, with the same discipline, step 6:          *)
(* external libraries)                                                     *)
(***************************************************************************)

\* A dependency (ModuleDependency / ExternalLibraryDependency) is a record
\*   [kind, source, version]
\* kind: "Local", "Remote", "Share", "Runtime", "Module", "System";
\* source: the path / url+revision / system name ("" where the variant has
\* none); version: the parsed (major, minor, patch) of a Share, <<0, 0, 0>>
\* elsewhere.  Equality of records is the derived PartialEq of the source.

NoError == [type |-> "", name |-> ""]
LinkerError(type, name) == [type |-> type, name |-> name]

\* `item.parse::<u16>().unwrap()` on each part of a version string
\* (merger.rs:920-933).  A part is given by the number its decimal digits
\* denote; a number that does not fit 16 bits makes unwrap panic, which
\* leaves no parts (<<>>).
parse_version(version) ==
    IF \E k \in 1..Len(version) : version[k] > 65535
    THEN <<>>
    ELSE version

\* compare_version that orders the minors of a zero major version as it
\* orders those of any other major version
compare_version_NoBetaRule(left, right) ==
    IF left[1] # right[1] THEN "Conflict"
    ELSE IF left[2] > right[2] THEN "GreaterThan"
    ELSE IF left[2] < right[2] THEN "LessThan"
    ELSE IF left[3] > right[3] THEN "GreaterThan"
    ELSE IF left[3] < right[3] THEN "LessThan"
    ELSE "Equals"

\* EffectiveVersion::compatible (crate anc_isa) has the rule of the
\* compare_version it replaced: left is the source version, right the merged.
compare_version(left, right) ==
    IF left[1] # right[1] THEN "Conflict"
    ELSE IF left[1] = 0
         THEN IF left[2] # right[2] THEN "Conflict"
              ELSE IF left[3] > right[3] THEN "GreaterThan"
              ELSE IF left[3] < right[3] THEN "LessThan"
              ELSE "Equals"
         ELSE IF left[2] > right[2] THEN "GreaterThan"
              ELSE IF left[2] < right[2] THEN "LessThan"
              ELSE IF left[3] > right[3] THEN "GreaterThan"
              ELSE IF left[3] < right[3] THEN "LessThan"
              ELSE "Equals"

\* reconcile_dependency that reports two Local dependencies of different
\* paths as a name conflict
reconcile_dependency_LocalNameConflict(dependency_source, dependency_merged) ==
    IF dependency_source = dependency_merged THEN "keep"
    ELSE CASE dependency_source.kind = "Local" -> "DependentNameConflict"
           [] dependency_source.kind = "Remote" ->
                  IF dependency_merged.kind = "Remote" THEN "DependentSourceConflict"
                  ELSE "DependentNameConflict"
           [] dependency_source.kind = "Share" ->
                  IF dependency_merged.kind = "Share"
                  THEN CASE compare_version(dependency_source.version,
                                            dependency_merged.version)
                                \in {"Equals", "LessThan"} -> "keep"
                         [] compare_version(dependency_source.version,
                                            dependency_merged.version)
                                = "GreaterThan" -> "replace"
                         [] OTHER -> "DependentVersionConflict"
                  ELSE "DependentNameConflict"
           [] OTHER -> "DependentNameConflict"

\* reconcile_dependency that keeps the merged entry when the source version
\* is the higher one
reconcile_dependency_KeepsOlder(dependency_source, dependency_merged) ==
    IF dependency_source = dependency_merged THEN "keep"
    ELSE CASE dependency_source.kind = "Local" ->
                  IF dependency_merged.kind = "Local" THEN "DependentSourceConflict"
                  ELSE "DependentNameConflict"
           [] dependency_source.kind = "Remote" ->
                  IF dependency_merged.kind = "Remote" THEN "DependentSourceConflict"
                  ELSE "DependentNameConflict"
           [] dependency_source.kind = "Share" ->
                  IF dependency_merged.kind = "Share"
                  THEN IF compare_version(dependency_source.version,
                                          dependency_merged.version) = "Conflict"
                       THEN "DependentVersionConflict"
                       ELSE "keep"
                  ELSE "DependentNameConflict"
           [] OTHER -> "DependentNameConflict"

\* The decision taken for a source entry whose name is already merged:
\* "keep", "replace", or the type of the error.
\* (`match dependency_source`, static_linker.rs:390-469 and 904-987; a
\* System dependency exists for libraries only, Runtime/Module for modules.)
reconcile_dependency(dependency_source, dependency_merged) ==
    IF dependency_source = dependency_merged THEN "keep"
    ELSE CASE dependency_source.kind = "Local" ->
                  IF dependency_merged.kind = "Local" THEN "DependentSourceConflict"
                  ELSE "DependentNameConflict"
           [] dependency_source.kind = "Remote" ->
                  IF dependency_merged.kind = "Remote" THEN "DependentSourceConflict"
                  ELSE "DependentNameConflict"
           [] dependency_source.kind = "Share" ->
                  IF dependency_merged.kind = "Share"
                  THEN CASE compare_version(dependency_source.version,
                                            dependency_merged.version)
                                \in {"Equals", "LessThan"} -> "keep"
                         [] compare_version(dependency_source.version,
                                            dependency_merged.version)
                                = "GreaterThan" -> "replace"
                         [] OTHER -> "DependentVersionConflict"
                  ELSE "DependentNameConflict"
           [] OTHER -> "DependentNameConflict"

\* entries are [name, dependency]; the result of one source list is
\* [error, entries_merged, indices]
RECURSIVE merge_dependency_source(_, _, _)
merge_dependency_source(entries_merged, entries_source, indices) ==
    IF entries_source = <<>>
    THEN [error |-> NoError, entries_merged |-> entries_merged, indices |-> indices]
    ELSE LET entry_source == Head(entries_source)
             pos_merged_opt ==
                 Position([n \in 1..Len(entries_merged) |->
                     LET item == entries_merged[n]
                     IN  item.name = entry_source.name])
         IN  IF pos_merged_opt = None
             THEN merge_dependency_source(Append(entries_merged, entry_source),
                                          Tail(entries_source),
                                          Append(indices, Len(entries_merged)))
             ELSE LET entry_merged == At(entries_merged, pos_merged_opt)
                      decision == reconcile_dependency(entry_source.dependency,
                                                       entry_merged.dependency)
                  IN  CASE decision = "keep" ->
                               merge_dependency_source(entries_merged,
                                                       Tail(entries_source),
                                                       Append(indices, pos_merged_opt))
                        [] decision = "replace" ->
                               merge_dependency_source(
                                   [entries_merged EXCEPT ![pos_merged_opt + 1] = entry_source],
                                   Tail(entries_source),
                                   Append(indices, pos_merged_opt))
                        [] OTHER ->
                               [error |-> LinkerError(decision, entry_merged.name),
                                entries_merged |-> entries_merged,
                                indices |-> indices]

RECURSIVE merge_dependency_remains(_, _, _)
merge_dependency_remains(entries_merged, remap_list, remains) ==
    IF remains = <<>>
    THEN [error |-> NoError, entries |-> entries_merged, remap |-> remap_list]
    ELSE LET r == merge_dependency_source(entries_merged, Head(remains), <<>>)
         IN  IF r.error # NoError
             THEN [error |-> r.error, entries |-> <<>>, remap |-> <<>>]
             ELSE merge_dependency_remains(r.entries_merged,
                                           Append(remap_list, r.indices),
                                           Tail(remains))

merge_import_module_entries(import_module_entries_list) ==
    LET first == import_module_entries_list[1]
    IN  merge_dependency_remains(first, <<RangeVec(0, Len(first))>>,
                                 Tail(import_module_entries_list))

merge_external_library_entries(external_library_entries_list) ==
    LET first == external_library_entries_list[1]
    IN  merge_dependency_remains(first, <<RangeVec(0, Len(first))>>,
                                 Tail(external_library_entries_list))

(***************************************************************************)
(* Step 4: data sections and the export-data table                         *)
(***************************************************************************)

DataSectionTypes == <<"ReadOnly", "ReadWrite", "Uninit">>

\* One of the three loops of merge_data_entries (static_linker.rs:645-660,
\* 663-678, 681-696), from unit submodule_index (1-based here) to the last.
\* acc = [export_data_entries, data_entries, internal_data_remap_indices_list]
RECURSIVE add_section_data(_, _, _, _)
add_section_data(acc, export_data_entries_list, section_data_entries_list, submodule_index) ==
    IF submodule_index > Len(export_data_entries_list) THEN acc
    ELSE LET total_data_internal_index_start == Len(acc.export_data_entries)
             module_data_internal_index_start ==
                 Len(acc.internal_data_remap_indices_list[submodule_index])
             data_entry_count == Len(section_data_entries_list[submodule_index])
             window == SubSeq(export_data_entries_list[submodule_index],
                              module_data_internal_index_start + 1,
                              module_data_internal_index_start + data_entry_count)
         IN  add_section_data(
                 [export_data_entries |-> acc.export_data_entries \o window,
                  data_entries |->
                      acc.data_entries \o section_data_entries_list[submodule_index],
                  internal_data_remap_indices_list |->
                      [acc.internal_data_remap_indices_list EXCEPT ![submodule_index] =
                          @ \o RangeVec(total_data_internal_index_start,
                                        total_data_internal_index_start + data_entry_count)]],
                 export_data_entries_list, section_data_entries_list,
                 submodule_index + 1)

\* merge_data_entries with the uninitialized sections gathered before the
\* read-write sections
merge_data_entries_UninitFirst(export_data_entries_list, read_only_data_entries_list, read_write_data_entries_list, uninit_data_entries_list) ==
    LET module_count == Len(export_data_entries_list)
        start == [export_data_entries |-> <<>>, data_entries |-> <<>>,
                  internal_data_remap_indices_list |-> [u \in 1..module_count |-> <<>>]]
        ro == add_section_data(start, export_data_entries_list,
                               read_only_data_entries_list, 1)
        un == add_section_data([ro EXCEPT !.data_entries = <<>>], export_data_entries_list,
                               uninit_data_entries_list, 1)
        rw == add_section_data([un EXCEPT !.data_entries = <<>>], export_data_entries_list,
                               read_write_data_entries_list, 1)
    IN  [export_data_entries |-> rw.export_data_entries,
         read_only_data_entries |-> ro.data_entries,
         read_write_data_entries |-> rw.data_entries,
         uninit_data_entries |-> un.data_entries,
         internal_data_remap_indices_list |-> rw.internal_data_remap_indices_list]

merge_data_entries(export_data_entries_list, read_only_data_entries_list, read_write_data_entries_list, uninit_data_entries_list) ==
    LET module_count == Len(export_data_entries_list)
        start == [export_data_entries |-> <<>>, data_entries |-> <<>>,
                  internal_data_remap_indices_list |-> [u \in 1..module_count |-> <<>>]]
        ro == add_section_data(start, export_data_entries_list,
                               read_only_data_entries_list, 1)
        rw == add_section_data([ro EXCEPT !.data_entries = <<>>], export_data_entries_list,
                               read_write_data_entries_list, 1)
        un == add_section_data([rw EXCEPT !.data_entries = <<>>], export_data_entries_list,
                               uninit_data_entries_list, 1)
    IN  [export_data_entries |-> un.export_data_entries,
         read_only_data_entries |-> ro.data_entries,
         read_write_data_entries |-> rw.data_entries,
         uninit_data_entries |-> un.data_entries,
         internal_data_remap_indices_list |-> un.internal_data_remap_indices_list]

(***************************************************************************)
(* Step 5: import data                                                     *)
(***************************************************************************)

\* ImportRemapItem
Import(idx) == [tag |-> "Import", idx |-> idx]
Internal(idx) == [tag |-> "Internal", idx |-> idx]

\* merge_import_data_source that appends a new import with the import module
\* index it has in its unit
RECURSIVE merge_import_data_source_KeepsModuleIndex(_, _, _, _, _)
merge_import_data_source_KeepsModuleIndex(export_data_entries, import_module_remap_indices, merged, entries_source, table) ==
    IF entries_source = <<>>
    THEN [error |-> NoError, merged |-> merged, table |-> table]
    ELSE LET import_data_entry_source == Head(entries_source)
             pos_internal_opt ==
                 Position([n \in 1..Len(export_data_entries) |->
                     LET item == export_data_entries[n]
                     IN  item.full_name = import_data_entry_source.full_name])
             pos_merged_opt ==
                 Position([n \in 1..Len(merged) |->
                     LET item == merged[n]
                     IN  item.full_name = import_data_entry_source.full_name])
         IN  IF pos_internal_opt # None
             THEN IF import_data_entry_source.data_section_type
                        # At(export_data_entries, pos_internal_opt).section_type
                  THEN [error |-> LinkerError("ImportDataSectionMismatch",
                                              import_data_entry_source.full_name),
                        merged |-> merged, table |-> table]
                  ELSE \* "todo: check the type": the memory data type is not compared
                       merge_import_data_source_KeepsModuleIndex(export_data_entries,
                                                import_module_remap_indices, merged,
                                                Tail(entries_source),
                                                Append(table, Internal(pos_internal_opt)))
             ELSE IF pos_merged_opt # None
             THEN LET import_data_entry_merged == At(merged, pos_merged_opt)
                  IN  IF import_data_entry_source.data_section_type
                            # import_data_entry_merged.data_section_type
                      THEN [error |-> LinkerError("ImportDataSectionInconsistant",
                                                  import_data_entry_source.full_name),
                            merged |-> merged, table |-> table]
                      ELSE IF import_data_entry_source.memory_data_type
                                 # import_data_entry_merged.memory_data_type
                      THEN [error |-> LinkerError("ImportDataTypeInconsistant",
                                                  import_data_entry_source.full_name),
                            merged |-> merged, table |-> table]
                      ELSE merge_import_data_source_KeepsModuleIndex(export_data_entries,
                                                    import_module_remap_indices, merged,
                                                    Tail(entries_source),
                                                    Append(table, Import(pos_merged_opt)))
             ELSE LET merged_import_module_index ==
                          import_data_entry_source.import_module_index
                      import_data_entry_merged ==
                          [import_data_entry_source
                               EXCEPT !.import_module_index = merged_import_module_index]
                  IN  merge_import_data_source_KeepsModuleIndex(export_data_entries,
                                               import_module_remap_indices,
                                               Append(merged, import_data_entry_merged),
                                               Tail(entries_source),
                                               Append(table, Import(Len(merged))))

\* The entries of one unit that lie in one section (already filtered), merged
\* into import_data_entries_merged (static_linker.rs:750-834).
\* Result: [error, merged, table]
RECURSIVE merge_import_data_source(_, _, _, _, _)
merge_import_data_source(export_data_entries, import_module_remap_indices, merged, entries_source, table) ==
    IF entries_source = <<>>
    THEN [error |-> NoError, merged |-> merged, table |-> table]
    ELSE LET import_data_entry_source == Head(entries_source)
             pos_internal_opt ==
                 Position([n \in 1..Len(export_data_entries) |->
                     LET item == export_data_entries[n]
                     IN  item.full_name = import_data_entry_source.full_name])
             pos_merged_opt ==
                 Position([n \in 1..Len(merged) |->
                     LET item == merged[n]
                     IN  item.full_name = import_data_entry_source.full_name])
         IN  IF pos_internal_opt # None
             THEN IF import_data_entry_source.data_section_type
                        # At(export_data_entries, pos_internal_opt).section_type
                  THEN [error |-> LinkerError("ImportDataSectionMismatch",
                                              import_data_entry_source.full_name),
                        merged |-> merged, table |-> table]
                  ELSE \* "todo: check the type": the memory data type is not compared
                       merge_import_data_source(export_data_entries,
                                                import_module_remap_indices, merged,
                                                Tail(entries_source),
                                                Append(table, Internal(pos_internal_opt)))
             ELSE IF pos_merged_opt # None
             THEN LET import_data_entry_merged == At(merged, pos_merged_opt)
                  IN  IF import_data_entry_source.data_section_type
                            # import_data_entry_merged.data_section_type
                      THEN [error |-> LinkerError("ImportDataSectionInconsistant",
                                                  import_data_entry_source.full_name),
                            merged |-> merged, table |-> table]
                      ELSE IF import_data_entry_source.memory_data_type
                                 # import_data_entry_merged.memory_data_type
                      THEN [error |-> LinkerError("ImportDataTypeInconsistant",
                                                  import_data_entry_source.full_name),
                            merged |-> merged, table |-> table]
                      ELSE merge_import_data_source(export_data_entries,
                                                    import_module_remap_indices, merged,
                                                    Tail(entries_source),
                                                    Append(table, Import(pos_merged_opt)))
             ELSE LET merged_import_module_index ==
                          At(import_module_remap_indices,
                             import_data_entry_source.import_module_index)
                      import_data_entry_merged ==
                          [import_data_entry_source
                               EXCEPT !.import_module_index = merged_import_module_index]
                  IN  merge_import_data_source(export_data_entries,
                                               import_module_remap_indices,
                                               Append(merged, import_data_entry_merged),
                                               Tail(entries_source),
                                               Append(table, Import(Len(merged))))

\* merge_import_data_loop with the loops exchanged: unit by unit, and the
\* sections within each unit
RECURSIVE merge_import_data_loop_UnitMajor(_, _, _, _, _)
merge_import_data_loop_UnitMajor(export_data_entries, import_module_remap_indices_list, import_data_entries_list, acc, k) ==
    LET module_count == Len(import_data_entries_list)
    IN  IF k >= 3 * module_count \/ acc.error # NoError THEN acc
        ELSE LET data_section_type == DataSectionTypes[(k % 3) + 1]
                 submodule_index == (k \div 3) + 1
                 r == merge_import_data_source(
                          export_data_entries,
                          import_module_remap_indices_list[submodule_index],
                          acc.merged,
                          SelectSeq(import_data_entries_list[submodule_index],
                                    LAMBDA item : item.data_section_type = data_section_type),
                          <<>>)
             IN  merge_import_data_loop_UnitMajor(
                     export_data_entries, import_module_remap_indices_list,
                     import_data_entries_list,
                     [error |-> r.error,
                      merged |-> r.merged,
                      table_list |-> [acc.table_list EXCEPT ![submodule_index] = @ \o r.table]],
                     k + 1)

\* The two outer loops of static_linker.rs:738-838: k counts the pairs
\* (section, unit), section-major, from 0.
\* acc = [error, merged, table_list]
RECURSIVE merge_import_data_loop(_, _, _, _, _)
merge_import_data_loop(export_data_entries, import_module_remap_indices_list, import_data_entries_list, acc, k) ==
    LET module_count == Len(import_data_entries_list)
    IN  IF k >= 3 * module_count \/ acc.error # NoError THEN acc
        ELSE LET data_section_type == DataSectionTypes[(k \div module_count) + 1]
                 submodule_index == (k % module_count) + 1
                 r == merge_import_data_source(
                          export_data_entries,
                          import_module_remap_indices_list[submodule_index],
                          acc.merged,
                          SelectSeq(import_data_entries_list[submodule_index],
                                    LAMBDA item : item.data_section_type = data_section_type),
                          <<>>)
             IN  merge_import_data_loop(
                     export_data_entries, import_module_remap_indices_list,
                     import_data_entries_list,
                     [error |-> r.error,
                      merged |-> r.merged,
                      table_list |-> [acc.table_list EXCEPT ![submodule_index] = @ \o r.table]],
                     k + 1)

\* build_public_remap_indices_list that leaves the imports out of the public
\* index of an internal item
build_public_remap_indices_list_NoImportCount(remap_table_list, internal_remap_indices_list, import_count) ==
    [u \in 1..Len(remap_table_list) |->
        [i \in 1..Len(remap_table_list[u]) |->
            remap_table_list[u][i].idx]
        \o [i \in 1..Len(internal_remap_indices_list[u]) |->
               internal_remap_indices_list[u][i]]]

\* "build the ... public index remap list" (static_linker.rs:579-606, 840-868)
build_public_remap_indices_list(remap_table_list, internal_remap_indices_list, import_count) ==
    [u \in 1..Len(remap_table_list) |->
        [i \in 1..Len(remap_table_list[u]) |->
            IF remap_table_list[u][i].tag = "Import"
            THEN remap_table_list[u][i].idx
            ELSE remap_table_list[u][i].idx + import_count]
        \o [i \in 1..Len(internal_remap_indices_list[u]) |->
               internal_remap_indices_list[u][i] + import_count]]

\* Result: [error, entries, remap]
merge_import_data_entries(export_data_entries, internal_data_remap_indices_list, import_module_remap_indices_list, import_data_entries_list) ==
    LET module_count == Len(import_data_entries_list)
        r == merge_import_data_loop(
                 export_data_entries, import_module_remap_indices_list,
                 import_data_entries_list,
                 [error |-> NoError, merged |-> <<>>,
                  table_list |-> [u \in 1..module_count |-> <<>>]],
                 0)
    IN  IF r.error # NoError
        THEN [error |-> r.error, entries |-> <<>>, remap |-> <<>>]
        ELSE [error |-> NoError,
              entries |-> r.merged,
              remap |-> build_public_remap_indices_list(
                            r.table_list, internal_data_remap_indices_list, Len(r.merged))]

(***************************************************************************)
(* Step 7: external functions                                              *)
(***************************************************************************)

\* Result: [entries_merged, indices]
RECURSIVE merge_external_function_source(_, _, _, _, _)
\* merge_external_function_source that tells external functions apart by name only
merge_external_function_source_NameOnly(external_library_remap_indices, type_remap_indices, entries_merged, entries_source, indices) ==
    IF entries_source = <<>>
    THEN [entries_merged |-> entries_merged, indices |-> indices]
    ELSE LET entry_source == Head(entries_source)
             pos_merged_opt ==
                 Position([n \in 1..Len(entries_merged) |->
                     entries_merged[n].name = entry_source.name])
         IN  IF pos_merged_opt # None
             THEN merge_external_function_source(
                      external_library_remap_indices, type_remap_indices, entries_merged,
                      Tail(entries_source), Append(indices, pos_merged_opt))
             ELSE merge_external_function_source(
                      external_library_remap_indices, type_remap_indices,
                      Append(entries_merged,
                             [name |-> entry_source.name,
                              external_library_index |->
                                  At(external_library_remap_indices,
                                     entry_source.external_library_index),
                              type_index |-> At(type_remap_indices, entry_source.type_index)]),
                      Tail(entries_source), Append(indices, Len(entries_merged)))

merge_external_function_source(external_library_remap_indices, type_remap_indices, entries_merged, entries_source, indices) ==
    IF entries_source = <<>>
    THEN [entries_merged |-> entries_merged, indices |-> indices]
    ELSE LET entry_source == Head(entries_source)
             external_library_index_merged ==
                 At(external_library_remap_indices, entry_source.external_library_index)
             pos_merged_opt ==
                 Position([n \in 1..Len(entries_merged) |->
                     LET item == entries_merged[n]
                     IN  /\ item.name = entry_source.name
                         /\ item.external_library_index = external_library_index_merged])
         IN  IF pos_merged_opt # None
             THEN \* "todo: check declare type"
                  merge_external_function_source(
                      external_library_remap_indices, type_remap_indices, entries_merged,
                      Tail(entries_source), Append(indices, pos_merged_opt))
             ELSE merge_external_function_source(
                      external_library_remap_indices, type_remap_indices,
                      Append(entries_merged,
                             [name |-> entry_source.name,
                              external_library_index |-> external_library_index_merged,
                              type_index |-> At(type_remap_indices, entry_source.type_index)]),
                      Tail(entries_source), Append(indices, Len(entries_merged)))

RECURSIVE merge_external_function_units(_, _, _, _, _, _)
merge_external_function_units(external_library_remap_indices_list, type_remap_indices_list, external_function_entries_list, entries_merged, remap_list, submodule_index) ==
    IF submodule_index > Len(external_function_entries_list)
    THEN [entries |-> entries_merged, remap |-> remap_list]
    ELSE LET r == merge_external_function_source(
                      external_library_remap_indices_list[submodule_index],
                      type_remap_indices_list[submodule_index],
                      entries_merged,
                      external_function_entries_list[submodule_index], <<>>)
         IN  merge_external_function_units(
                 external_library_remap_indices_list, type_remap_indices_list,
                 external_function_entries_list, r.entries_merged,
                 Append(remap_list, r.indices), submodule_index + 1)

merge_external_function_entries(external_library_remap_indices_list, type_remap_indices_list, external_function_entries_list) ==
    merge_external_function_units(external_library_remap_indices_list,
                                  type_remap_indices_list,
                                  external_function_entries_list, <<>>, <<>>, 1)

(***************************************************************************)
(* Step 8: export functions (static_linker.rs:167-177)                     *)
(***************************************************************************)

RECURSIVE merge_export_function_units(_, _, _, _)
merge_export_function_units(export_function_entries_list, export_function_entries, internal_function_remap_indices_list, submodule_index) ==
    IF submodule_index > Len(export_function_entries_list)
    THEN [entries |-> export_function_entries,
          remap |-> internal_function_remap_indices_list]
    ELSE LET source == export_function_entries_list[submodule_index]
             indices == RangeVec(Len(export_function_entries),
                                 Len(export_function_entries) + Len(source))
         IN  merge_export_function_units(
                 export_function_entries_list,
                 export_function_entries \o source,
                 Append(internal_function_remap_indices_list, indices),
                 submodule_index + 1)

merge_export_function_entries(export_function_entries_list) ==
    merge_export_function_units(export_function_entries_list, <<>>, <<>>, 1)

(***************************************************************************)
(* Step 9, 10: import functions and the function public index remap        *)
(***************************************************************************)

\* Result: [merged, table]
RECURSIVE merge_import_function_source(_, _, _, _, _, _)
merge_import_function_source(export_function_entries, import_module_remap_indices, type_remap_indices, merged, entries_source, table) ==
    IF entries_source = <<>>
    THEN [merged |-> merged, table |-> table]
    ELSE LET import_function_entry_source == Head(entries_source)
             merged_import_module_index ==
                 At(import_module_remap_indices,
                    import_function_entry_source.import_module_index)
             merged_type_index ==
                 At(type_remap_indices, import_function_entry_source.type_index)
             pos_internal_opt ==
                 Position([n \in 1..Len(export_function_entries) |->
                     LET item == export_function_entries[n]
                     IN  item.full_name = import_function_entry_source.full_name])
             pos_merged_opt ==
                 Position([n \in 1..Len(merged) |->
                     LET item == merged[n]
                     IN  item.full_name = import_function_entry_source.full_name])
         IN  IF pos_internal_opt # None
             THEN \* "todo: check the type"
                  merge_import_function_source(
                      export_function_entries, import_module_remap_indices,
                      type_remap_indices, merged, Tail(entries_source),
                      Append(table, Internal(pos_internal_opt)))
             ELSE IF pos_merged_opt # None
             THEN \* "todo:: check the type"
                  merge_import_function_source(
                      export_function_entries, import_module_remap_indices,
                      type_remap_indices, merged, Tail(entries_source),
                      Append(table, Import(pos_merged_opt)))
             ELSE merge_import_function_source(
                      export_function_entries, import_module_remap_indices,
                      type_remap_indices,
                      Append(merged,
                             [full_name |-> import_function_entry_source.full_name,
                              import_module_index |-> merged_import_module_index,
                              type_index |-> merged_type_index]),
                      Tail(entries_source),
                      Append(table, Import(Len(merged))))

RECURSIVE merge_import_function_units(_, _, _, _, _, _, _)
merge_import_function_units(export_function_entries, import_module_remap_indices_list, type_remap_indices_list, import_function_entries_list, merged, table_list, submodule_index) ==
    IF submodule_index > Len(import_function_entries_list)
    THEN [merged |-> merged, table_list |-> table_list]
    ELSE LET r == merge_import_function_source(
                      export_function_entries,
                      import_module_remap_indices_list[submodule_index],
                      type_remap_indices_list[submodule_index],
                      merged, import_function_entries_list[submodule_index], <<>>)
         IN  merge_import_function_units(
                 export_function_entries, import_module_remap_indices_list,
                 type_remap_indices_list, import_function_entries_list,
                 r.merged, Append(table_list, r.table), submodule_index + 1)

\* merge_import_function_entries that looks no import up among the exported
\* functions
merge_import_function_entries_NoInternalLookup(export_function_entries, internal_function_remap_indices_list, import_module_remap_indices_list, type_remap_indices_list, import_function_entries_list) ==
    LET r == merge_import_function_units(
                 <<>>, import_module_remap_indices_list,
                 type_remap_indices_list, import_function_entries_list, <<>>, <<>>, 1)
    IN  [entries |-> r.merged,
         remap |-> build_public_remap_indices_list(
                       r.table_list, internal_function_remap_indices_list, Len(r.merged))]

\* Result: [entries, remap]; this step has no error path
merge_import_function_entries(export_function_entries, internal_function_remap_indices_list, import_module_remap_indices_list, type_remap_indices_list, import_function_entries_list) ==
    LET r == merge_import_function_units(
                 export_function_entries, import_module_remap_indices_list,
                 type_remap_indices_list, import_function_entries_list, <<>>, <<>>, 1)
    IN  [entries |-> r.merged,
         remap |-> build_public_remap_indices_list(
                       r.table_list, internal_function_remap_indices_list, Len(r.merged))]

(***************************************************************************)
(* Step 11: functions and the relocation of their bytecode                 *)
(***************************************************************************)

\* The 4-byte slot at code_offset read as the u32 the source reads through
\* `*value_ptr` (little-endian target).
read_u32(code, code_offset) ==
    At(code, code_offset) + 256 * At(code, code_offset + 1)
        + 65536 * At(code, code_offset + 2) + 16777216 * At(code, code_offset + 3)

\* write_u32 through a 64-bit pointer: the four bytes after the slot are
\* written too
write_u32_Wide(code, code_offset, value) ==
    [b \in 1..Len(code) |->
        CASE b = code_offset + 1 -> value % 256
          [] b = code_offset + 2 -> (value \div 256) % 256
          [] b = code_offset + 3 -> (value \div 65536) % 256
          [] b = code_offset + 4 -> (value \div 16777216) % 256
          [] b \in (code_offset + 5)..(code_offset + 8) -> 0
          [] OTHER -> code[b]]

\* `*value_ptr = value_relocated as u32`: the low four bytes of the value
write_u32(code, code_offset, value) ==
    [code EXCEPT ![code_offset + 1] = value % 256,
                 ![code_offset + 2] = (value \div 256) % 256,
                 ![code_offset + 3] = (value \div 65536) % 256,
                 ![code_offset + 4] = (value \div 16777216) % 256]

\* remap_table is the RemapTable of the unit, relocate_type selects the vector
remap_indices_of(remap_table, relocate_type) ==
    CASE relocate_type = "TypeIndex" -> remap_table.type_remap_indices
      [] relocate_type = "LocalVariableListIndex" ->
             remap_table.local_variable_list_remap_indices
      [] relocate_type = "FunctionPublicIndex" ->
             remap_table.function_public_remap_indices
      [] relocate_type = "ExternalFunctionIndex" ->
             remap_table.external_function_remap_indices
      [] relocate_type = "DataPublicIndex" -> remap_table.data_public_remap_indices

\* "update each relocate item" (static_linker.rs:1091-1124), in list order
RECURSIVE relocate_code(_, _, _)
relocate_code(code, relocate_entries, remap_table) ==
    IF relocate_entries = <<>> THEN code
    ELSE LET relocate_entry == Head(relocate_entries)
             value_source == read_u32(code, relocate_entry.code_offset)
             value_relocated ==
                 At(remap_indices_of(remap_table, relocate_entry.relocate_type),
                    value_source)
         IN  relocate_code(write_u32(code, relocate_entry.code_offset, value_relocated),
                           Tail(relocate_entries), remap_table)

\* merge_function_source that copies the type index of a function
merge_function_source_KeepsTypeIndex(function_entries, relocate_list_entries, remap_table) ==
    LET count == IF Len(function_entries) < Len(relocate_list_entries)
                 THEN Len(function_entries) ELSE Len(relocate_list_entries)
    IN  [k \in 1..count |->
            [type_index |-> function_entries[k].type_index,
             local_variable_list_index |->
                 At(remap_table.local_variable_list_remap_indices,
                    function_entries[k].local_variable_list_index),
             code |-> relocate_code(function_entries[k].code,
                                    relocate_list_entries[k].relocate_entries,
                                    remap_table)]]

\* the functions of one unit: function_entries zipped with relocate_list_entries
merge_function_source(function_entries, relocate_list_entries, remap_table) ==
    LET count == IF Len(function_entries) < Len(relocate_list_entries)
                 THEN Len(function_entries) ELSE Len(relocate_list_entries)
    IN  [k \in 1..count |->
            [type_index |->
                 At(remap_table.type_remap_indices, function_entries[k].type_index),
             local_variable_list_index |->
                 At(remap_table.local_variable_list_remap_indices,
                    function_entries[k].local_variable_list_index),
             code |-> relocate_code(function_entries[k].code,
                                    relocate_list_entries[k].relocate_entries,
                                    remap_table)]]

\* merge_function_entries that takes the functions of the units last to first
merge_function_entries_LastUnitFirst(relocate_list_entries_list, function_entries_list, remap_table_list) ==
    [function_entries |->
         Flatten([u \in 1..Len(function_entries_list) |->
                     merge_function_source(
                         function_entries_list[Len(function_entries_list) + 1 - u],
                         relocate_list_entries_list[Len(function_entries_list) + 1 - u],
                         remap_table_list[Len(function_entries_list) + 1 - u])]),
     relocate_list_entries |-> Flatten(relocate_list_entries_list)]

merge_function_entries(relocate_list_entries_list, function_entries_list, remap_table_list) ==
    [function_entries |->
         Flatten([u \in 1..Len(function_entries_list) |->
                     merge_function_source(function_entries_list[u],
                                           relocate_list_entries_list[u],
                                           remap_table_list[u])]),
     relocate_list_entries |-> Flatten(relocate_list_entries_list)]

(***************************************************************************)
(* static_link                                                             *)
(***************************************************************************)

\* ImportModuleEntry::self_reference_entry()
self_reference_entry ==
    [name |-> "module",
     dependency |-> [kind |-> "Module", source |-> "", version |-> <<0, 0, 0>>]]

NoImage ==
    [name |-> "", image_type |-> "",
     import_module_entries |-> <<>>, import_function_entries |-> <<>>,
     import_data_entries |-> <<>>, type_entries |-> <<>>,
     local_variable_list_entries |-> <<>>, function_entries |-> <<>>,
     read_only_data_entries |-> <<>>, read_write_data_entries |-> <<>>,
     uninit_data_entries |-> <<>>, export_function_entries |-> <<>>,
     export_data_entries |-> <<>>, relocate_list_entries |-> <<>>,
     external_library_entries |-> <<>>, external_function_entries |-> <<>>]

NoRemaps ==
    [type_remap_indices_list |-> <<>>,
     local_variable_list_remap_indices_list |-> <<>>,
     import_module_remap_indices_list |-> <<>>,
     internal_data_remap_indices_list |-> <<>>,
     data_public_remap_indices_list |-> <<>>,
     external_library_remap_indices_list |-> <<>>,
     external_function_remap_indices_list |-> <<>>,
     internal_function_remap_indices_list |-> <<>>,
     function_public_remap_indices_list |-> <<>>]

Failure(error) == [status |-> "Err", error |-> error, image |-> NoImage, remaps |-> NoRemaps]

\* check_internal_references that looks at the functions only
check_internal_references_FunctionsOnly(import_module_entries, import_function_entries, import_data_entries) ==
    LET pos_opt == Position([n \in 1..Len(import_module_entries) |->
                       LET item == import_module_entries[n]
                       IN  item = self_reference_entry])
        first_function == Position([n \in 1..Len(import_function_entries) |->
                              LET item == import_function_entries[n]
                              IN  item.import_module_index = pos_opt])
    IN  IF pos_opt = None THEN NoError
        ELSE IF first_function # None
        THEN LinkerError("FunctionNotFound",
                         At(import_function_entries, first_function).full_name)
        ELSE NoError

\* check_internal_references that looks at the data before the functions
check_internal_references_DataFirst(import_module_entries, import_function_entries, import_data_entries) ==
    LET pos_opt == Position([n \in 1..Len(import_module_entries) |->
                       LET item == import_module_entries[n]
                       IN  item = self_reference_entry])
        first_function == Position([n \in 1..Len(import_function_entries) |->
                              LET item == import_function_entries[n]
                              IN  item.import_module_index = pos_opt])
        first_data == Position([n \in 1..Len(import_data_entries) |->
                          LET item == import_data_entries[n]
                          IN  item.import_module_index = pos_opt])
    IN  IF pos_opt = None THEN NoError
        ELSE IF first_data # None
        THEN LinkerError("DataNotFound", At(import_data_entries, first_data).full_name)
        ELSE IF first_function # None
        THEN LinkerError("FunctionNotFound",
                         At(import_function_entries, first_function).full_name)
        ELSE NoError

\* "Check that the internally referenced functions and data have all been
\* resolved" (static_linker.rs:224-248): the error, or NoError
check_internal_references(import_module_entries, import_function_entries, import_data_entries) ==
    LET pos_opt == Position([n \in 1..Len(import_module_entries) |->
                       LET item == import_module_entries[n]
                       IN  item = self_reference_entry])
        first_function == Position([n \in 1..Len(import_function_entries) |->
                              LET item == import_function_entries[n]
                              IN  item.import_module_index = pos_opt])
        first_data == Position([n \in 1..Len(import_data_entries) |->
                          LET item == import_data_entries[n]
                          IN  item.import_module_index = pos_opt])
    IN  IF pos_opt = None THEN NoError
        ELSE IF first_function # None
        THEN LinkerError("FunctionNotFound",
                         At(import_function_entries, first_function).full_name)
        ELSE IF first_data # None
        THEN LinkerError("DataNotFound", At(import_data_entries, first_data).full_name)
        ELSE NoError

\* The value of static_link, with the remap vectors it built:
\* [status, error, image, remaps]
static_link(target_module_name, finalize_internal_functions_reference, submodule_entries) ==
    LET Column(field) == [u \in 1..Len(submodule_entries) |-> submodule_entries[u][field]]
        types == merge_type_entries(Column("type_entries"))
        locals == merge_local_variable_list_entries(Column("local_variable_list_entries"))
        modules == merge_import_module_entries(Column("import_module_entries"))
        data == merge_data_entries(Column("export_data_entries"),
                                   Column("read_only_data_entries"),
                                   Column("read_write_data_entries"),
                                   Column("uninit_data_entries"))
        import_data == merge_import_data_entries(
                           data.export_data_entries,
                           data.internal_data_remap_indices_list,
                           modules.remap, Column("import_data_entries"))
        libraries == merge_external_library_entries(Column("external_library_entries"))
        external_functions ==
            merge_external_function_entries(libraries.remap, types.remap,
                                            Column("external_function_entries"))
        export_functions == merge_export_function_entries(Column("export_function_entries"))
        import_functions ==
            merge_import_function_entries(export_functions.entries, export_functions.remap,
                                          modules.remap, types.remap,
                                          Column("import_function_entries"))
        remap_table_list ==
            [u \in 1..Len(submodule_entries) |->
                [type_remap_indices |-> types.remap[u],
                 local_variable_list_remap_indices |-> locals.remap[u],
                 function_public_remap_indices |-> import_functions.remap[u],
                 data_public_remap_indices |-> import_data.remap[u],
                 external_function_remap_indices |-> external_functions.remap[u]]]
        functions == merge_function_entries(Column("relocate_list_entries"),
                                            Column("function_entries"),
                                            remap_table_list)
        unresolved == check_internal_references(modules.entries, import_functions.entries,
                                                import_data.entries)
    IN  IF modules.error # NoError THEN Failure(modules.error)
        ELSE IF import_data.error # NoError THEN Failure(import_data.error)
        ELSE IF libraries.error # NoError THEN Failure(libraries.error)
        ELSE IF finalize_internal_functions_reference /\ unresolved # NoError
        THEN Failure(unresolved)
        ELSE [status |-> "Ok",
              error |-> NoError,
              image |->
                  [name |-> target_module_name,
                   image_type |-> IF finalize_internal_functions_reference
                                  THEN "SharedModule" ELSE "ObjectFile",
                   import_module_entries |-> modules.entries,
                   import_function_entries |-> import_functions.entries,
                   import_data_entries |-> import_data.entries,
                   type_entries |-> types.entries,
                   local_variable_list_entries |-> locals.entries,
                   function_entries |-> functions.function_entries,
                   read_only_data_entries |-> data.read_only_data_entries,
                   read_write_data_entries |-> data.read_write_data_entries,
                   uninit_data_entries |-> data.uninit_data_entries,
                   export_function_entries |-> export_functions.entries,
                   export_data_entries |-> data.export_data_entries,
                   relocate_list_entries |-> functions.relocate_list_entries,
                   external_library_entries |-> libraries.entries,
                   external_function_entries |-> external_functions.entries],
              remaps |->
                  [type_remap_indices_list |-> types.remap,
                   local_variable_list_remap_indices_list |-> locals.remap,
                   import_module_remap_indices_list |-> modules.remap,
                   internal_data_remap_indices_list |->
                       data.internal_data_remap_indices_list,
                   data_public_remap_indices_list |-> import_data.remap,
                   external_library_remap_indices_list |-> libraries.remap,
                   external_function_remap_indices_list |-> external_functions.remap,
                   internal_function_remap_indices_list |-> export_functions.remap,
                   function_public_remap_indices_list |-> import_functions.remap]]

(***************************************************************************)
(* Dynamic linker: sort_modules_by_dependent_deepth                        *)
(***************************************************************************)

\* sort_by that puts an item in front of the items of an equal key
RECURSIVE sort_by_Unstable(_)
sort_by_Unstable(pairs) ==
    IF pairs = <<>> THEN <<>>
    ELSE LET sorted == sort_by_Unstable(SubSeq(pairs, 1, Len(pairs) - 1))
             last == pairs[Len(pairs)]
             count == Cardinality({k \in 1..Len(sorted) : sorted[k][1] < last[1]})
         IN  SubSeq(sorted, 1, count) \o <<last>> \o SubSeq(sorted, count + 1, Len(sorted))

\* slice.sort_by(|l, r| key(l).cmp(&key(r))) over <<key, item>> pairs: a
\* stable sort, an item goes behind the items whose key is not greater
RECURSIVE sort_by(_)
sort_by(pairs) ==
    IF pairs = <<>> THEN <<>>
    ELSE LET sorted == sort_by(SubSeq(pairs, 1, Len(pairs) - 1))
             last == pairs[Len(pairs)]
             count == Cardinality({k \in 1..Len(sorted) : sorted[k][1] <= last[1]})
         IN  SubSeq(sorted, 1, count) \o <<last>> \o SubSeq(sorted, count + 1, Len(sorted))

\* dependency_with_deepth_items.iter().position(|(name, _)| name == ...)
position_of_item(items, name) ==
    Position([n \in 1..Len(items) |-> items[n][1] = name])

\* image_common_entries.iter().find(|item| item.name == ...), as the index of
\* the module found: None stands for the failed unwrap()
find_module(entries, name) ==
    Position([n \in 1..Len(entries) |-> entries[n].name = name])

\* visit_dependencies that keeps the deepth a module was first recorded with
RECURSIVE visit_dependencies_FirstDeepth(_, _, _, _, _)
visit_dependencies_FirstDeepth(entries, import_module_entries, items, pending, current_depth) ==
    IF import_module_entries = <<>>
    THEN [items |-> items, pending |-> pending, panic |-> FALSE]
    ELSE LET dependency_new == Head(import_module_entries)
             index_opt == position_of_item(items, dependency_new.name)
             found == find_module(entries, dependency_new.name)
         IN  IF dependency_new = self_reference_entry \/ index_opt # None
             THEN visit_dependencies_FirstDeepth(entries, Tail(import_module_entries), items,
                                                 pending, current_depth)
             ELSE IF found = None
             THEN [items |-> Append(items, <<dependency_new.name, current_depth>>),
                   pending |-> pending, panic |-> TRUE]
             ELSE visit_dependencies_FirstDeepth(
                      entries, Tail(import_module_entries),
                      Append(items, <<dependency_new.name, current_depth>>),
                      Append(pending, <<At(entries, found), current_depth>>), current_depth)

\* visit_dependencies that puts a dependency on the queue whenever it meets
\* it, raised or not
RECURSIVE visit_dependencies_AlwaysEnqueue(_, _, _, _, _)
visit_dependencies_AlwaysEnqueue(entries, import_module_entries, items, pending, current_depth) ==
    IF import_module_entries = <<>>
    THEN [items |-> items, pending |-> pending, panic |-> FALSE]
    ELSE LET dependency_new == Head(import_module_entries)
             index_opt == position_of_item(items, dependency_new.name)
             found == find_module(entries, dependency_new.name)
             raised == index_opt # None /\ At(items, index_opt)[2] < current_depth
             items_new == IF index_opt = None
                          THEN Append(items, <<dependency_new.name, current_depth>>)
                          ELSE IF raised
                          THEN [items EXCEPT ![index_opt + 1][2] = current_depth]
                          ELSE items
         IN  IF dependency_new = self_reference_entry
             THEN visit_dependencies_AlwaysEnqueue(entries, Tail(import_module_entries), items,
                                                   pending, current_depth)
             ELSE IF found = None
             THEN [items |-> items_new, pending |-> pending, panic |-> TRUE]
             ELSE visit_dependencies_AlwaysEnqueue(
                      entries, Tail(import_module_entries), items_new,
                      Append(pending, <<At(entries, found), current_depth>>), current_depth)

\* visit_dependencies that records a dependency one deeper than the path it
\* came by
RECURSIVE visit_dependencies_OneDeeper(_, _, _, _, _)
visit_dependencies_OneDeeper(entries, import_module_entries, items, pending, current_depth) ==
    IF import_module_entries = <<>>
    THEN [items |-> items, pending |-> pending, panic |-> FALSE]
    ELSE LET dependency_new == Head(import_module_entries)
             index_opt == position_of_item(items, dependency_new.name)
             found == find_module(entries, dependency_new.name)
             items_new == IF index_opt = None
                          THEN Append(items, <<dependency_new.name, current_depth + 1>>)
                          ELSE [items EXCEPT ![index_opt + 1][2] = current_depth + 1]
         IN  IF dependency_new = self_reference_entry
                \/ (index_opt # None /\ ~(At(items, index_opt)[2] < current_depth))
             THEN visit_dependencies_OneDeeper(entries, Tail(import_module_entries), items,
                                               pending, current_depth)
             ELSE IF found = None
             THEN [items |-> items_new, pending |-> pending, panic |-> TRUE]
             ELSE visit_dependencies_OneDeeper(
                      entries, Tail(import_module_entries), items_new,
                      Append(pending, <<At(entries, found), current_depth>>), current_depth)

\* The for loop over the import modules of one parent module: every
\* dependency that is new, or is recorded with a smaller deepth, is recorded
\* with current_depth and put on the queue.
RECURSIVE visit_dependencies(_, _, _, _, _)
visit_dependencies(entries, import_module_entries, items, pending, current_depth) ==
    IF import_module_entries = <<>>
    THEN [items |-> items, pending |-> pending, panic |-> FALSE]
    ELSE LET dependency_new == Head(import_module_entries)
             index_opt == position_of_item(items, dependency_new.name)
             found == find_module(entries, dependency_new.name)
         IN  IF dependency_new = self_reference_entry
             THEN visit_dependencies(entries, Tail(import_module_entries), items, pending,
                                     current_depth)
             ELSE IF index_opt # None /\ ~(At(items, index_opt)[2] < current_depth)
             THEN visit_dependencies(entries, Tail(import_module_entries), items, pending,
                                     current_depth)
             ELSE IF found = None
             THEN [items |-> IF index_opt # None
                             THEN [items EXCEPT ![index_opt + 1][2] = current_depth]
                             ELSE Append(items, <<dependency_new.name, current_depth>>),
                   pending |-> pending, panic |-> TRUE]
             ELSE visit_dependencies(
                      entries, Tail(import_module_entries),
                      IF index_opt # None
                      THEN [items EXCEPT ![index_opt + 1][2] = current_depth]
                      ELSE Append(items, <<dependency_new.name, current_depth>>),
                      Append(pending, <<At(entries, found), current_depth>>), current_depth)

\* the deepth the sorted items record for a module; None stands for the
\* failed unwrap() of the comparison
deepth_of_module(items, name) ==
    LET pos == position_of_item(items, name)
    IN  IF pos = None THEN None ELSE At(items, pos)[2]

\* finish_sort that leaves the modules in the order of the array
finish_sort_KeepsOrder(entries, items) ==
    LET items_sorted == sort_by([k \in 1..Len(items) |-> <<items[k][2], items[k]>>])
        items_by_deepth == [k \in 1..Len(items_sorted) |-> items_sorted[k][2]]
    IN  IF Len(entries) >= 2
           /\ \E k \in 1..Len(entries) :
                  deepth_of_module(items_by_deepth, entries[k].name) = None
        THEN [status |-> "Panic", items |-> items_by_deepth, entries |-> entries,
              error |-> NoError]
        ELSE [status |-> "Ok", items |-> items_by_deepth, entries |-> entries,
              error |-> NoError]

\* What follows the traversal: the items are sorted by deepth, more than one
\* item of deepth 0 is the DanglingModule error, and the modules are sorted
\* by the deepth of their items.  A slice of fewer than two modules is
\* sorted without a comparison.
finish_sort(entries, items) ==
    LET items_sorted == sort_by([k \in 1..Len(items) |-> <<items[k][2], items[k]>>])
        items_by_deepth == [k \in 1..Len(items_sorted) |-> items_sorted[k][2]]
        roots == {k \in 1..Len(items_by_deepth) : items_by_deepth[k][2] = 0}
        deepths == [k \in 1..Len(entries) |->
                       deepth_of_module(items_by_deepth, entries[k].name)]
        entries_sorted == sort_by([k \in 1..Len(entries) |-> <<deepths[k], entries[k]>>])
    IN  IF Cardinality(roots) > 1
        THEN [status |-> "Err", items |-> items_by_deepth, entries |-> entries,
              error |-> LinkerError("DanglingModule", At(items_by_deepth, 1)[1])]
        ELSE IF Len(entries) >= 2 /\ \E k \in 1..Len(entries) : deepths[k] = None
        THEN [status |-> "Panic", items |-> items_by_deepth, entries |-> entries,
              error |-> NoError]
        ELSE [status |-> "Ok", items |-> items_by_deepth,
              entries |-> IF Len(entries) < 2 THEN entries
                          ELSE [k \in 1..Len(entries_sorted) |-> entries_sorted[k][2]],
              error |-> NoError]

(***************************************************************************)
(* Dynamic linker: dynamic_link                                            *)
(***************************************************************************)

FunctionIndexEntry(target_module_index, function_internal_index) ==
    [target_module_index |-> target_module_index,
     function_internal_index |-> function_internal_index]
DataIndexEntry(target_module_index, data_internal_index, target_data_section_type) ==
    [target_module_index |-> target_module_index,
     data_internal_index |-> data_internal_index,
     target_data_section_type |-> target_data_section_type]

Resolved(entry) == [status |-> "Ok", error |-> NoError, entry |-> entry]
Unresolved(type, name) ==
    [status |-> "Err", error |-> LinkerError(type, name), entry |-> <<>>]
OutOfRange == [status |-> "Panic", error |-> NoError, entry |-> <<>>]

\* the index of v that i names is in range
InRange(v, i) == i \in 0..(Len(v) - 1)

\* target_module_index_of that takes the import modules of the source module
\* to stand in the order of the array
target_module_index_of_ByPosition(entries, source_module_entry, import_module_index) ==
    IF ~InRange(source_module_entry.import_module_entries, import_module_index)
           \/ ~InRange(entries, import_module_index)
    THEN None
    ELSE import_module_index

\* the module of `entries` that an import of source_module_entry names
\* through its import_module_index: None stands for an index out of range
\* and for the failed unwrap() of position()
target_module_index_of(entries, source_module_entry, import_module_index) ==
    IF ~InRange(source_module_entry.import_module_entries, import_module_index)
    THEN None
    ELSE find_module(entries,
                     At(source_module_entry.import_module_entries, import_module_index).name)

\* resolve_import_function that leaves out the visibility check
resolve_import_function_AnyVisibility(entries, source_module_entry, import_function_entry) ==
    LET target_module_index ==
            target_module_index_of(entries, source_module_entry,
                                   import_function_entry.import_module_index)
        target_module == At(entries, target_module_index)
        expected_full_name == import_function_entry.full_name
        target_function_internal_index_opt ==
            Position([n \in 1..Len(target_module.export_function_entries) |->
                target_module.export_function_entries[n].full_name = expected_full_name])
        target_function_entry ==
            At(target_module.function_entries, target_function_internal_index_opt)
    IN  IF target_module_index = None THEN OutOfRange
        ELSE IF target_function_internal_index_opt = None
        THEN Unresolved("FunctionNotFound", expected_full_name)
        ELSE IF \/ ~InRange(target_module.function_entries,
                            target_function_internal_index_opt)
                \/ ~InRange(source_module_entry.type_entries,
                            import_function_entry.type_index)
                \/ ~InRange(target_module.type_entries, target_function_entry.type_index)
        THEN OutOfRange
        ELSE IF At(source_module_entry.type_entries, import_function_entry.type_index)
                    # At(target_module.type_entries, target_function_entry.type_index)
        THEN Unresolved("ImportFunctionTypeMismatch", expected_full_name)
        ELSE Resolved(FunctionIndexEntry(target_module_index,
                                         target_function_internal_index_opt))

\* resolve_import_function that compares the types before the visibility
resolve_import_function_TypeFirst(entries, source_module_entry, import_function_entry) ==
    LET r == resolve_import_function_AnyVisibility(entries, source_module_entry,
                                                   import_function_entry)
        target_module ==
            At(entries, target_module_index_of(entries, source_module_entry,
                                               import_function_entry.import_module_index))
    IN  IF r.status = "Ok"
           /\ At(target_module.export_function_entries,
                 r.entry.function_internal_index).visibility # "Public"
        THEN Unresolved("FunctionNotExported", import_function_entry.full_name)
        ELSE r

\* One import function of source_module_entry (dynamic_linker.rs:189-239):
\* the export of the same full name in the module the import names, which
\* has to be Public and of the import's type.
resolve_import_function(entries, source_module_entry, import_function_entry) ==
    LET target_module_index ==
            target_module_index_of(entries, source_module_entry,
                                   import_function_entry.import_module_index)
        target_module == At(entries, target_module_index)
        expected_full_name == import_function_entry.full_name
        target_function_internal_index_opt ==
            Position([n \in 1..Len(target_module.export_function_entries) |->
                target_module.export_function_entries[n].full_name = expected_full_name])
        target_function_entry ==
            At(target_module.function_entries, target_function_internal_index_opt)
    IN  IF target_module_index = None THEN OutOfRange
        ELSE IF target_function_internal_index_opt = None
        THEN Unresolved("FunctionNotFound", expected_full_name)
        ELSE IF At(target_module.export_function_entries,
                   target_function_internal_index_opt).visibility # "Public"
        THEN Unresolved("FunctionNotExported", expected_full_name)
        ELSE IF \/ ~InRange(target_module.function_entries,
                            target_function_internal_index_opt)
                \/ ~InRange(source_module_entry.type_entries,
                            import_function_entry.type_index)
                \/ ~InRange(target_module.type_entries, target_function_entry.type_index)
        THEN OutOfRange
        ELSE IF At(source_module_entry.type_entries, import_function_entry.type_index)
                    # At(target_module.type_entries, target_function_entry.type_index)
        THEN Unresolved("ImportFunctionTypeMismatch", expected_full_name)
        ELSE Resolved(FunctionIndexEntry(target_module_index,
                                         target_function_internal_index_opt))

\* One import datum of source_module_entry (dynamic_linker.rs:258-310): the
\* export of the same full name in the module the import names, which has
\* to be of the import's section and Public.  The index of the entry is the
\* position in the target's export-data table.
resolve_import_data(entries, source_module_entry, import_data_entry) ==
    LET target_module_index ==
            target_module_index_of(entries, source_module_entry,
                                   import_data_entry.import_module_index)
        target_module == At(entries, target_module_index)
        expected_full_name == import_data_entry.full_name
        target_data_internal_index_opt ==
            Position([n \in 1..Len(target_module.export_data_entries) |->
                target_module.export_data_entries[n].full_name = expected_full_name])
        target_export_data_entry ==
            At(target_module.export_data_entries, target_data_internal_index_opt)
    IN  IF target_module_index = None THEN OutOfRange
        ELSE IF target_data_internal_index_opt = None
        THEN Unresolved("DataNotFound", expected_full_name)
        ELSE IF target_export_data_entry.section_type # import_data_entry.data_section_type
        THEN Unresolved("ImportDataSectionMismatch", expected_full_name)
        ELSE IF target_export_data_entry.visibility # "Public"
        THEN Unresolved("DataNotExported", expected_full_name)
        ELSE Resolved(DataIndexEntry(target_module_index, target_data_internal_index_opt,
                                     target_export_data_entry.section_type))

\* The two loops over the modules (dynamic_linker.rs:184-251, 253-344) have
\* one shape: the imports of every module are resolved in order, the first
\* import that is not resolved ends the link, and the list of a module is
\* its resolved imports followed by its internal entries.
build_index_list(resolved_list, internal_list) ==
    LET flat == Flatten(resolved_list)
        failed == Position([n \in 1..Len(flat) |-> flat[n].status # "Ok"])
    IN  IF failed # None
        THEN [status |-> At(flat, failed).status, error |-> At(flat, failed).error,
              list |-> <<>>]
        ELSE [status |-> "Ok", error |-> NoError,
              list |-> [m \in 1..Len(resolved_list) |->
                           [k \in 1..Len(resolved_list[m]) |-> resolved_list[m][k].entry]
                           \o internal_list[m]]]

build_function_index_list_entries(entries) ==
    build_index_list(
        [m \in 1..Len(entries) |->
            [k \in 1..Len(entries[m].import_function_entries) |->
                resolve_import_function(entries, entries[m],
                                        entries[m].import_function_entries[k])]],
        [m \in 1..Len(entries) |->
            [i \in 1..Len(entries[m].function_entries) |-> FunctionIndexEntry(m - 1, i - 1)]])

\* build_data_index_list_entries that lists the internal data as .bss, .data, .rodata
build_data_index_list_entries_UninitFirst(entries) ==
    build_index_list(
        [m \in 1..Len(entries) |->
            [k \in 1..Len(entries[m].import_data_entries) |->
                resolve_import_data(entries, entries[m], entries[m].import_data_entries[k])]],
        [m \in 1..Len(entries) |->
            [i \in 1..Len(entries[m].uninit_data_entries) |->
                DataIndexEntry(m - 1, i - 1, "Uninit")]
            \o [i \in 1..Len(entries[m].read_write_data_entries) |->
                   DataIndexEntry(m - 1, i - 1, "ReadWrite")]
            \o [i \in 1..Len(entries[m].read_only_data_entries) |->
                   DataIndexEntry(m - 1, i - 1, "ReadOnly")]])

build_data_index_list_entries(entries) ==
    build_index_list(
        [m \in 1..Len(entries) |->
            [k \in 1..Len(entries[m].import_data_entries) |->
                resolve_import_data(entries, entries[m], entries[m].import_data_entries[k])]],
        [m \in 1..Len(entries) |->
            [i \in 1..Len(entries[m].read_only_data_entries) |->
                DataIndexEntry(m - 1, i - 1, "ReadOnly")]
            \o [i \in 1..Len(entries[m].read_write_data_entries) |->
                   DataIndexEntry(m - 1, i - 1, "ReadWrite")]
            \o [i \in 1..Len(entries[m].uninit_data_entries) |->
                   DataIndexEntry(m - 1, i - 1, "Uninit")]])

RECURSIVE build_external_function_source(_, _, _, _, _)
\* build_external_function_source that looks a function up by its name only
build_external_function_source_NameOnly(external_library_remap_indices, type_entries, merged, entries_source, indices) ==
    IF entries_source = <<>>
    THEN [type_entries_merged |-> merged.type_entries_merged,
          external_function_entries_merged |-> merged.external_function_entries_merged,
          indices |-> indices]
    ELSE LET external_function_entry_source == Head(entries_source)
             type_entry_source == At(type_entries, external_function_entry_source.type_index)
             type_index_merged_opt ==
                 Position([n \in 1..Len(merged.type_entries_merged) |->
                     merged.type_entries_merged[n] = type_entry_source])
             type_entries_merged ==
                 IF type_index_merged_opt # None THEN merged.type_entries_merged
                 ELSE Append(merged.type_entries_merged, type_entry_source)
             type_index_merged ==
                 IF type_index_merged_opt # None THEN type_index_merged_opt
                 ELSE Len(merged.type_entries_merged)
             pos_merged_opt ==
                 Position([n \in 1..Len(merged.external_function_entries_merged) |->
                     merged.external_function_entries_merged[n].name
                         = external_function_entry_source.name])
         IN  IF pos_merged_opt # None
             THEN build_external_function_source(
                      external_library_remap_indices, type_entries,
                      [type_entries_merged |-> type_entries_merged,
                       external_function_entries_merged |->
                           merged.external_function_entries_merged],
                      Tail(entries_source), Append(indices, pos_merged_opt))
             ELSE build_external_function_source(
                      external_library_remap_indices, type_entries,
                      [type_entries_merged |-> type_entries_merged,
                       external_function_entries_merged |->
                           Append(merged.external_function_entries_merged,
                                  [name |-> external_function_entry_source.name,
                                   external_library_index |->
                                       At(external_library_remap_indices,
                                          external_function_entry_source.external_library_index),
                                   type_index |-> type_index_merged])],
                      Tail(entries_source),
                      Append(indices, Len(merged.external_function_entries_merged)))

\* The inner loop of build_external_function_and_type_entries
\* (dynamic_linker.rs:429-479) over the external functions of one module.
\* merged = [type_entries_merged, external_function_entries_merged]; the type
\* of a function joins the unified type table before the function is looked
\* up.
build_external_function_source(external_library_remap_indices, type_entries, merged, entries_source, indices) ==
    IF entries_source = <<>>
    THEN [type_entries_merged |-> merged.type_entries_merged,
          external_function_entries_merged |-> merged.external_function_entries_merged,
          indices |-> indices]
    ELSE LET external_function_entry_source == Head(entries_source)
             type_entry_source == At(type_entries, external_function_entry_source.type_index)
             type_index_merged_opt ==
                 Position([n \in 1..Len(merged.type_entries_merged) |->
                     merged.type_entries_merged[n] = type_entry_source])
             type_entries_merged ==
                 IF type_index_merged_opt # None THEN merged.type_entries_merged
                 ELSE Append(merged.type_entries_merged, type_entry_source)
             type_index_merged ==
                 IF type_index_merged_opt # None THEN type_index_merged_opt
                 ELSE Len(merged.type_entries_merged)
             external_library_index_merged ==
                 At(external_library_remap_indices,
                    external_function_entry_source.external_library_index)
             pos_merged_opt ==
                 Position([n \in 1..Len(merged.external_function_entries_merged) |->
                     LET item == merged.external_function_entries_merged[n]
                     IN  /\ item.name = external_function_entry_source.name
                         /\ item.external_library_index = external_library_index_merged])
         IN  IF pos_merged_opt # None
             THEN \* "todo: check declare type"
                  build_external_function_source(
                      external_library_remap_indices, type_entries,
                      [type_entries_merged |-> type_entries_merged,
                       external_function_entries_merged |->
                           merged.external_function_entries_merged],
                      Tail(entries_source), Append(indices, pos_merged_opt))
             ELSE build_external_function_source(
                      external_library_remap_indices, type_entries,
                      [type_entries_merged |-> type_entries_merged,
                       external_function_entries_merged |->
                           Append(merged.external_function_entries_merged,
                                  [name |-> external_function_entry_source.name,
                                   external_library_index |-> external_library_index_merged,
                                   type_index |-> type_index_merged])],
                      Tail(entries_source),
                      Append(indices, Len(merged.external_function_entries_merged)))

\* the outer loop of build_external_function_and_type_entries, from module
\* submodule_index (1-based here) to the last
RECURSIVE build_external_function_units(_, _, _, _, _, _)
build_external_function_units(external_library_remap_indices_list, type_entries_list, external_function_entries_list, merged, remap_list, submodule_index) ==
    IF submodule_index > Len(external_function_entries_list)
    THEN [type_entries_merged |-> merged.type_entries_merged,
          external_function_entries_merged |-> merged.external_function_entries_merged,
          external_function_remap_indices_list |-> remap_list]
    ELSE LET r == build_external_function_source(
                      external_library_remap_indices_list[submodule_index],
                      type_entries_list[submodule_index], merged,
                      external_function_entries_list[submodule_index], <<>>)
         IN  build_external_function_units(
                 external_library_remap_indices_list, type_entries_list,
                 external_function_entries_list,
                 [type_entries_merged |-> r.type_entries_merged,
                  external_function_entries_merged |-> r.external_function_entries_merged],
                 Append(remap_list, r.indices), submodule_index + 1)

build_external_function_and_type_entries(external_library_remap_indices_list, type_entries_list, external_function_entries_list) ==
    build_external_function_units(
        external_library_remap_indices_list, type_entries_list,
        external_function_entries_list,
        [type_entries_merged |-> <<>>, external_function_entries_merged |-> <<>>],
        <<>>, 1)

DEFAULT_ENTRY_FUNCTION_NAME == "_start"

\* char_word of the regular expressions: a letter, a digit or an underscore
CharWord ==
    {"a", "b", "c", "d", "e", "f", "g", "h", "i", "j", "k", "l", "m", "n", "o", "p", "q",
     "r", "s", "t", "u", "v", "w", "x", "y", "z", "0", "1", "2", "3", "4", "5", "6", "7",
     "8", "9", "_"}

\* char_word+ matches the whole of text
IsWord(text) ==
    /\ Len(text) >= 1
    /\ \A k \in 1..Len(text) : SubSeq(text, k, k) \in CharWord

StartsWith(text, prefix) ==
    /\ Len(text) >= Len(prefix)
    /\ SubSeq(text, 1, Len(prefix)) = prefix
EndsWith(text, suffix) ==
    /\ Len(text) >= Len(suffix)
    /\ SubSeq(text, Len(text) - Len(suffix) + 1, Len(text)) = suffix

\* start, "{module}::app::", (char_word+).name(unit_name), "::_start", end:
\* the unit_name captured, or "" when full_name does not match
capture_executable_unit(module_name, full_name) ==
    LET prefix == module_name \o "::app::"
        suffix == "::" \o DEFAULT_ENTRY_FUNCTION_NAME
        unit_name == SubSeq(full_name, Len(prefix) + 1, Len(full_name) - Len(suffix))
    IN  IF /\ Len(full_name) > Len(prefix) + Len(suffix)
           /\ StartsWith(full_name, prefix)
           /\ EndsWith(full_name, suffix)
           /\ IsWord(unit_name)
        THEN unit_name ELSE ""

\* capture_unit_test with (char_word+, "::")+ in front of "test_"
capture_unit_test_AnyDepth(module_name, full_name) ==
    LET prefix == module_name \o "::tests::"
        unit_name == SubSeq(full_name, Len(prefix) + 1, Len(full_name))
        splits == {k \in 1..Len(unit_name) :
                      /\ \A n \in 1..k : SubSeq(unit_name, n, n) \in CharWord \cup {":"}
                      /\ StartsWith(SubSeq(unit_name, k + 1, Len(unit_name)), "::test_")
                      /\ IsWord(SubSeq(unit_name, k + 8, Len(unit_name)))}
    IN  IF StartsWith(full_name, prefix) /\ splits # {}
        THEN unit_name ELSE ""

\* start, "{module}::tests::",
\* (char_word+, "::", "test_", char_word+).name(unit_name), end
capture_unit_test(module_name, full_name) ==
    LET prefix == module_name \o "::tests::"
        unit_name == SubSeq(full_name, Len(prefix) + 1, Len(full_name))
        splits == {k \in 1..Len(unit_name) :
                      /\ IsWord(SubSeq(unit_name, 1, k))
                      /\ StartsWith(SubSeq(unit_name, k + 1, Len(unit_name)), "::test_")
                      /\ IsWord(SubSeq(unit_name, k + 8, Len(unit_name)))}
    IN  IF StartsWith(full_name, prefix) /\ splits # {}
        THEN unit_name ELSE ""

\* the positions of `captures` that hold a name, as entry points
RECURSIVE entry_points_of(_, _, _)
entry_points_of(captures, import_functions_count, function_internal_index) ==
    IF function_internal_index >= Len(captures) THEN <<>>
    ELSE (IF At(captures, function_internal_index) = "" THEN <<>>
          ELSE <<[unit_name |-> At(captures, function_internal_index),
                  function_public_index |-> import_functions_count + function_internal_index]>>)
         \o entry_points_of(captures, import_functions_count, function_internal_index + 1)

find_entry_points(main_module_entry) ==
    LET export_function_entries == main_module_entry.export_function_entries
        import_functions_count == Len(main_module_entry.import_function_entries)
        module_name == main_module_entry.name
        default_entry_point_full_name == module_name \o "::" \o DEFAULT_ENTRY_FUNCTION_NAME
        default_entry_point_internal_index_opt ==
            Position([n \in 1..Len(export_function_entries) |->
                export_function_entries[n].full_name = default_entry_point_full_name])
    IN  (IF default_entry_point_internal_index_opt = None THEN <<>>
         ELSE <<[unit_name |-> DEFAULT_ENTRY_FUNCTION_NAME,
                 function_public_index |->
                     import_functions_count + default_entry_point_internal_index_opt]>>)
        \o entry_points_of([n \in 1..Len(export_function_entries) |->
                               capture_executable_unit(module_name,
                                                       export_function_entries[n].full_name)],
                           import_functions_count, 0)
        \o entry_points_of([n \in 1..Len(export_function_entries) |->
                               capture_unit_test(module_name,
                                                 export_function_entries[n].full_name)],
                           import_functions_count, 0)

NoIndex ==
    [function_index_list_entries |-> <<>>, entry_point_entries |-> <<>>,
     data_index_list_entries |-> <<>>, unified_external_library_entries |-> <<>>,
     unified_external_type_entries |-> <<>>, unified_external_function_entries |-> <<>>,
     external_function_index_entries |-> <<>>, dynamic_link_module_entries |-> <<>>]

LinkFailure(failure_status, failure_error) ==
    [status |-> failure_status, error |-> failure_error, image_index_entry |-> NoIndex]

\* dynamic_link (dynamic_linker.rs:177-410) on the modules `entries` and the
\* module locations `module_entries`
dynamic_link(entries, module_entries) ==
    LET functions == build_function_index_list_entries(entries)
        data == build_data_index_list_entries(entries)
        libraries ==
            merge_external_library_entries(
                [m \in 1..Len(entries) |-> entries[m].external_library_entries])
        external_functions ==
            build_external_function_and_type_entries(
                libraries.remap,
                [m \in 1..Len(entries) |-> entries[m].type_entries],
                [m \in 1..Len(entries) |-> entries[m].external_function_entries])
        located == [m \in 1..Len(entries) |->
                       Position([n \in 1..Len(module_entries) |->
                           module_entries[n].name = entries[m].name])]
    IN  IF functions.status # "Ok" THEN LinkFailure(functions.status, functions.error)
        ELSE IF data.status # "Ok" THEN LinkFailure(data.status, data.error)
        ELSE IF libraries.error # NoError THEN LinkFailure("Err", libraries.error)
        ELSE IF \E m \in 1..Len(entries) : located[m] = None
        THEN LinkFailure("Panic", NoError)
        ELSE [status |-> "Ok", error |-> NoError,
              image_index_entry |->
                  [function_index_list_entries |-> functions.list,
                   entry_point_entries |-> find_entry_points(entries[1]),
                   data_index_list_entries |-> data.list,
                   unified_external_library_entries |-> libraries.entries,
                   unified_external_type_entries |-> external_functions.type_entries_merged,
                   unified_external_function_entries |->
                       external_functions.external_function_entries_merged,
                   external_function_index_entries |->
                       external_functions.external_function_remap_indices_list,
                   dynamic_link_module_entries |->
                       [m \in 1..Len(entries) |-> At(module_entries, located[m])]]]

(***************************************************************************)
(* Object units: the inputs of static_link                                 *)
(***************************************************************************)

\* the most units in one link
MaxUnits == 2

\* the most entries in the type table (the local-variable-list table) of a unit
MaxTypes == 2

Visibility == {"Public", "Private"}

TypeEntry(params, results) == [params |-> params, results |-> results]
LocalVariableListEntry(entries) == [local_variable_entries |-> entries]

Share(version) == [kind |-> "Share", source |-> "", version |-> version]
Local(path) == [kind |-> "Local", source |-> path, version |-> <<0, 0, 0>>]
Remote(url) == [kind |-> "Remote", source |-> url, version |-> <<0, 0, 0>>]
Runtime == [kind |-> "Runtime", source |-> "", version |-> <<0, 0, 0>>]
System(name) == [kind |-> "System", source |-> name, version |-> <<0, 0, 0>>]
DependencyEntry(name, dependency) == [name |-> name, dependency |-> dependency]

\* An instruction of the bytecode: the bytes of its opcode and padding, then
\* (unless relocate_type is "None") one 4-byte little-endian operand that a
\* relocation entry names.
Instruction(bytes, relocate_type, value) ==
    [bytes |-> bytes, relocate_type |-> relocate_type, value |-> value]

\* the four bytes of a 32-bit operand, least significant first
LittleEndian(value) ==
    <<value % 256, (value \div 256) % 256, (value \div 65536) % 256,
      (value \div 16777216) % 256>>

InstructionBytes(instruction) ==
    IF instruction.relocate_type = "None" THEN instruction.bytes
    ELSE instruction.bytes \o LittleEndian(instruction.value)

RECURSIVE AssembleCode(_)
AssembleCode(instructions) ==
    IF instructions = <<>> THEN <<>>
    ELSE InstructionBytes(Head(instructions)) \o AssembleCode(Tail(instructions))

RECURSIVE AssembleRelocateEntries(_, _)
AssembleRelocateEntries(instructions, code_offset) ==
    IF instructions = <<>> THEN <<>>
    ELSE LET instruction == Head(instructions)
             rest == AssembleRelocateEntries(
                         Tail(instructions),
                         code_offset + Len(InstructionBytes(instruction)))
         IN  IF instruction.relocate_type = "None" THEN rest
             ELSE <<[code_offset |-> code_offset + Len(instruction.bytes),
                     relocate_type |-> instruction.relocate_type]>> \o rest

FunctionEntry(type_index, local_variable_list_index, instructions) ==
    [type_index |-> type_index,
     local_variable_list_index |-> local_variable_list_index,
     code |-> AssembleCode(instructions)]

RelocateListEntry(instructions) ==
    [relocate_entries |-> AssembleRelocateEntries(instructions, 0)]

\* opcodes as the assembler lays them out: a 16-bit opcode, 16 bits of
\* padding, then the 32-bit index (static_linker.rs:1313-1326, 1578-1584)
OpEnd == Instruction(<<192, 3>>, "None", 0)
OpNop == Instruction(<<0, 1>>, "None", 0)
OpCall(function_public_index) ==
    Instruction(<<0, 4, 0, 0>>, "FunctionPublicIndex", function_public_index)
OpExtCall(external_function_index) ==
    Instruction(<<3, 4, 0, 0>>, "ExternalFunctionIndex", external_function_index)
OpDataLoad(data_public_index) ==
    Instruction(<<193, 1, 0, 0>>, "DataPublicIndex", data_public_index)
OpBlockType(type_index) == Instruction(<<193, 3, 0, 0>>, "TypeIndex", type_index)
OpBlockLocal(local_variable_list_index) ==
    Instruction(<<>>, "LocalVariableListIndex", local_variable_list_index)

T0 == TypeEntry(<<>>, <<>>)
T1 == TypeEntry(<<>>, <<"I32">>)
T2 == TypeEntry(<<"I32">>, <<>>)

L0 == LocalVariableListEntry(<<>>)
L1 == LocalVariableListEntry(<<"I32">>)
L2 == LocalVariableListEntry(<<"I32", "I32">>)

\* a unit with nothing in it but one type and one local-variable list
EmptyUnit ==
    [name |-> "unit", image_type |-> "ObjectFile",
     import_module_entries |-> <<>>, import_function_entries |-> <<>>,
     import_data_entries |-> <<>>, type_entries |-> <<T0>>,
     local_variable_list_entries |-> <<L0>>, function_entries |-> <<>>,
     read_only_data_entries |-> <<>>, read_write_data_entries |-> <<>>,
     uninit_data_entries |-> <<>>, export_function_entries |-> <<>>,
     export_data_entries |-> <<>>, relocate_list_entries |-> <<>>,
     external_library_entries |-> <<>>, external_function_entries |-> <<>>]

\* the function entries, export entries and relocation lists of a unit whose
\* functions have the given names and instruction lists
WithFunctions(unit, names, type_indices, local_indices, instructions_list) ==
    [unit EXCEPT
        !.function_entries =
            [k \in 1..Len(names) |->
                FunctionEntry(type_indices[k], local_indices[k], instructions_list[k])],
        !.relocate_list_entries =
            [k \in 1..Len(names) |-> RelocateListEntry(instructions_list[k])],
        !.export_function_entries =
            [k \in 1..Len(names) |-> [full_name |-> names[k], visibility |-> "Private"]]]

StdModule == DependencyEntry("std", Share(<<1, 0, 0>>))

\* a sequence without its repetitions, first occurrences kept in order
RECURSIVE Distinct(_)
Distinct(v) ==
    IF v = <<>> THEN <<>>
    ELSE LET before == Distinct(SubSeq(v, 1, Len(v) - 1))
             last == v[Len(v)]
         IN  IF \E k \in 1..Len(before) : before[k] = last THEN before
             ELSE Append(before, last)

\* ---- units that differ in the functions and data they import and define ----

\* the module a function or a datum of a given full name is imported from
ModuleOfName(full_name) ==
    IF full_name \in {"std::h", "std::e"} THEN StdModule ELSE self_reference_entry

ImportData(full_name, data_section_type, memory_data_type) ==
    [full_name |-> full_name, data_section_type |-> data_section_type,
     memory_data_type |-> memory_data_type]

DataShape(read_only, read_write, uninit) ==
    [read_only |-> read_only, read_write |-> read_write, uninit |-> uninit]

\* the payload of the datum of a given name (distinct names, distinct bytes)
DataByte(full_name) ==
    CASE full_name = "m::d0" -> 17 [] full_name = "m::d1" -> 19
      [] full_name = "m::d2" -> 23 [] OTHER -> 29

\* A unit that imports the functions `function_imports` and the data
\* `data_imports` (already in section order, as the data public index space
\* of a unit requires), and defines the functions `function_exports` and the
\* data of `data_shape`.  Its import modules are those its imports use, in
\* the order of first use.  Its first function calls every function public
\* index and loads every data public index of the unit once; its other
\* functions are empty.
SymbolUnit(function_imports, function_exports, data_imports, data_shape) ==
    LET modules ==
            Distinct([k \in 1..Len(function_imports) |-> ModuleOfName(function_imports[k])]
                     \o [k \in 1..Len(data_imports) |->
                            ModuleOfName(data_imports[k].full_name)])
        ModuleIndex(full_name) ==
            Position([n \in 1..Len(modules) |->
                LET item == modules[n]
                IN  item = ModuleOfName(full_name)])
        function_public_count == Len(function_imports) + Len(function_exports)
        data_public_count ==
            Len(data_imports) + Len(data_shape.read_only) + Len(data_shape.read_write)
                + Len(data_shape.uninit)
        ExportData(names, section_type) ==
            [k \in 1..Len(names) |->
                [full_name |-> names[k], visibility |-> "Private",
                 section_type |-> section_type]]
        Inited(names) ==
            [k \in 1..Len(names) |->
                [memory_data_type |-> "I32", data |-> <<DataByte(names[k]), 0, 0, 0>>]]
        unit == [EmptyUnit EXCEPT
                    !.import_module_entries = modules,
                    !.import_function_entries =
                        [k \in 1..Len(function_imports) |->
                            [full_name |-> function_imports[k],
                             import_module_index |-> ModuleIndex(function_imports[k]),
                             type_index |-> 0]],
                    !.import_data_entries =
                        [k \in 1..Len(data_imports) |->
                            [full_name |-> data_imports[k].full_name,
                             import_module_index |-> ModuleIndex(data_imports[k].full_name),
                             data_section_type |-> data_imports[k].data_section_type,
                             memory_data_type |-> data_imports[k].memory_data_type]],
                    !.read_only_data_entries = Inited(data_shape.read_only),
                    !.read_write_data_entries = Inited(data_shape.read_write),
                    !.uninit_data_entries =
                        [k \in 1..Len(data_shape.uninit) |->
                            [memory_data_type |-> "I32", length |-> 4]],
                    !.export_data_entries =
                        ExportData(data_shape.read_only, "ReadOnly")
                            \o ExportData(data_shape.read_write, "ReadWrite")
                            \o ExportData(data_shape.uninit, "Uninit")]
    IN  WithFunctions(unit, function_exports,
                      [k \in 1..Len(function_exports) |-> 0],
                      [k \in 1..Len(function_exports) |-> 0],
                      [k \in 1..Len(function_exports) |->
                          IF k = 1
                          THEN [p \in 1..function_public_count |-> OpCall(p - 1)]
                                   \o [p \in 1..data_public_count |-> OpDataLoad(p - 1)] \o <<OpEnd>>
                          ELSE <<OpEnd>>])

NoData == DataShape(<<>>, <<>>, <<>>)

FunctionImportNames == {"m::f", "m::g", "std::h"}
FunctionExportShapes == {<<>>, <<"m::k", "m::f">>}

FunctionUnits ==
    {SymbolUnit(imports, exports, <<>>, NoData) :
        imports \in SeqsNoRep(FunctionImportNames, Cardinality(FunctionImportNames) - 1),
        exports \in FunctionExportShapes}

D0 == ImportData("m::d0", "ReadOnly", "I32")
D1 == ImportData("m::d1", "ReadWrite", "I32")
D2 == ImportData("m::d2", "Uninit", "I32")
E1 == ImportData("std::e", "ReadWrite", "I32")
\* the same names declared with another section, another memory data type
D0rw == ImportData("m::d0", "ReadWrite", "I32")
E1i64 == ImportData("std::e", "ReadWrite", "I64")

DataImportShapes ==
    {<<>>, <<D0>>, <<D2>>, <<D0, D1>>, <<E1, D1>>, <<D1, E1>>, <<D0, E1, D2>>,
     <<D0rw>>, <<E1i64>>}

DataExportShapes ==
    {DataShape(<<"m::d0">>, <<"m::d1">>, <<>>),
     DataShape(<<"m::c">>, <<>>, <<"m::d2", "m::z">>)}

DataUnits ==
    {SymbolUnit(<<>>, <<"m::main">>, imports, shape) :
        imports \in DataImportShapes, shape \in DataExportShapes}

\* units that import functions and data at once
MixedUnits ==
    {SymbolUnit(function_imports, function_exports, data_imports, shape) :
        function_imports \in {<<"m::g">>, <<"std::h", "m::f">>},
        function_exports \in {<<"m::f">>, <<"m::k">>},
        data_imports \in {<<>>, <<D1>>, <<E1, D2>>},
        shape \in {NoData, DataShape(<<>>, <<"m::d1">>, <<>>)}}

\* ---- units that differ in their type and local-variable-list tables ----

LocalOfType(type_entry) ==
    CASE type_entry = T0 -> L0 [] type_entry = T1 -> L1 [] OTHER -> L2

\* A unit with the type table `types` (repetitions allowed) and a
\* local-variable-list table made of the lists of those types in reverse
\* order.  It imports one function of its last type, and its one function,
\* of the last type and the first list, has one block per index that names
\* type i and list i.
TypeUnit(types) ==
    LET count == Len(types)
        unit == [EmptyUnit EXCEPT
                    !.type_entries = types,
                    !.local_variable_list_entries =
                        [k \in 1..count |-> LocalOfType(types[count - k + 1])],
                    !.import_module_entries = <<StdModule>>,
                    !.import_function_entries =
                        <<[full_name |-> "std::h", import_module_index |-> 0,
                           type_index |-> count - 1]>>]
        Block(i) == <<OpBlockType(i), OpBlockLocal(i)>>
    IN  WithFunctions(unit, <<"m::main">>, <<count - 1>>, <<0>>,
                      <<Flatten([k \in 1..count |-> Block(k - 1)]) \o <<OpEnd>>>>)

\* every table of 1..MaxTypes entries over two types that differ in their
\* results only, and two tables with a type that differs in its parameters
TypeUnits ==
    {TypeUnit(types) : types \in UNION {[1..n -> {T0, T1}] : n \in 1..MaxTypes}}
        \cup {TypeUnit(<<T2>>), TypeUnit(<<T2, T0>>)}

\* ---- units that differ in their import modules ----

Network101 == DependencyEntry("network", Share(<<1, 0, 1>>))
Encoding210 == DependencyEntry("encoding", Share(<<2, 1, 0>>))
Encoding220 == DependencyEntry("encoding", Share(<<2, 2, 0>>))
Gui134 == DependencyEntry("gui", Share(<<1, 3, 4>>))
Gui200 == DependencyEntry("gui", Share(<<2, 0, 0>>))
ModuleUniverse == {Network101, Encoding210, Encoding220, Gui134, Gui200}

FunctionOfModule(name) ==
    CASE name = "network" -> "network::send" [] name = "encoding" -> "encoding::utf8"
      [] OTHER -> "gui::draw"

\* A unit whose import modules are the self reference and then `modules`; it
\* imports one function from each of the latter and its one function calls
\* them all.
ModuleUnit(modules) ==
    LET unit == [EmptyUnit EXCEPT
                    !.import_module_entries = <<self_reference_entry>> \o modules,
                    !.import_function_entries =
                        [k \in 1..Len(modules) |->
                            [full_name |-> FunctionOfModule(modules[k].name),
                             import_module_index |-> k,
                             type_index |-> 0]]]
    IN  WithFunctions(unit, <<"m::main">>, <<0>>, <<0>>,
                      <<Append([p \in 1..(Len(modules) + 1) |-> OpCall(p - 1)], OpEnd)>>)

\* every list of at most two modules of different names, and two lists of
\* three (one of them the second list of test_merge_import_module_entries)
ModuleUnits ==
    {ModuleUnit(modules) :
        modules \in {v \in SeqsNoRep(ModuleUniverse, 2) :
                        \A i, j \in 1..Len(v) : i # j => v[i].name # v[j].name}
                    \cup {<<Gui134, Encoding220, Network101>>,
                          <<Network101, Encoding210, Gui134>>}}

\* ---- units that differ in their external libraries and functions ----

LibFoo == DependencyEntry("foo", System("foo"))
LibBar == DependencyEntry("bar", Share(<<1, 0, 0>>))
ExternalFunction(name, library, type_entry) ==
    [name |-> name, library |-> library, type_entry |-> type_entry]
ExternalUniverse ==
    {ExternalFunction("a", LibFoo, T1), ExternalFunction("b", LibFoo, T0),
     ExternalFunction("a", LibBar, T2), ExternalFunction("a", LibFoo, T2)}

\* A unit that declares the external functions `externals`; its libraries
\* and types are those the declarations use, in the order of first use; its
\* one function calls every external function.
ExternalUnit(externals) ==
    LET libraries == Distinct([k \in 1..Len(externals) |-> externals[k].library])
        types == Distinct(<<T0>> \o [k \in 1..Len(externals) |-> externals[k].type_entry])
        unit == [EmptyUnit EXCEPT
                    !.type_entries = types,
                    !.external_library_entries = libraries,
                    !.external_function_entries =
                        [k \in 1..Len(externals) |->
                            [name |-> externals[k].name,
                             external_library_index |->
                                 Position([n \in 1..Len(libraries) |->
                                     LET item == libraries[n]
                                     IN  item = externals[k].library]),
                             type_index |->
                                 Position([n \in 1..Len(types) |->
                                     LET item == types[n]
                                     IN  item = externals[k].type_entry])]]]
    IN  WithFunctions(unit, <<"m::main">>, <<0>>, <<0>>,
                      <<Append([k \in 1..Len(externals) |-> OpExtCall(k - 1)], OpEnd)>>)

ExternalUnits == {ExternalUnit(externals) : externals \in SeqsNoRep(ExternalUniverse, 2)}

\* ---- units that declare one module and one library in different ways ----

\* the ways a unit declares the module "dep"
DepUniverse ==
    {DependencyEntry("dep", Local("/a")), DependencyEntry("dep", Local("/b")),
     DependencyEntry("dep", Remote("x.git")), DependencyEntry("dep", Remote("y.git")),
     DependencyEntry("dep", Share(<<1, 0, 0>>)), DependencyEntry("dep", Share(<<1, 1, 0>>)),
     DependencyEntry("dep", Share(<<2, 0, 0>>)), DependencyEntry("dep", Runtime)}

\* the ways a unit declares the library "lib"
LibUniverse ==
    {DependencyEntry("lib", Local("/a")), DependencyEntry("lib", Local("/b")),
     DependencyEntry("lib", Remote("x.git")),
     DependencyEntry("lib", Share(<<1, 0, 0>>)), DependencyEntry("lib", Share(<<2, 0, 0>>)),
     DependencyEntry("lib", System("s")), DependencyEntry("lib", System("t"))}

\* a unit with these import modules and external libraries and one function
DependencyUnit(modules, libraries) ==
    WithFunctions([EmptyUnit EXCEPT !.import_module_entries = modules,
                                    !.external_library_entries = libraries],
                  <<"m::main">>, <<0>>, <<0>>, <<<<OpEnd>>>>)

\* units that declare the module only (one of them under the name of the
\* self reference), the library only, or both
DependencyUnits ==
    {DependencyUnit(<<self_reference_entry, d>>, <<>>) : d \in DepUniverse}
        \cup {DependencyUnit(<<self_reference_entry>>, <<>>),
              DependencyUnit(<<DependencyEntry("module", Share(<<1, 0, 0>>))>>, <<>>)}
        \cup {DependencyUnit(<<self_reference_entry>>, <<l>>) : l \in LibUniverse}
        \cup {DependencyUnit(<<self_reference_entry, DependencyEntry("dep", Local("/b"))>>,
                             <<DependencyEntry("lib", Local("/b"))>>),
              DependencyUnit(<<self_reference_entry, DependencyEntry("dep", Share(<<2, 0, 0>>))>>,
                             <<DependencyEntry("lib", Share(<<2, 0, 0>>))>>),
              DependencyUnit(<<self_reference_entry, DependencyEntry("dep", Local("/a"))>>,
                             <<DependencyEntry("lib", System("s"))>>)}

\* ---- units that import a datum another unit defines ----

\* units that import the datum "m::d0" with its section and memory data type,
\* with another section or with another memory data type, alone or with other
\* data, and units that define it
ImportedDataUnits ==
    {SymbolUnit(<<>>, <<"m::main">>, imports, shape) :
        imports \in {<<>>, <<D0>>, <<ImportData("m::d0", "ReadOnly", "I64")>>, <<D0rw>>,
                     <<D1, ImportData("m::d0", "ReadOnly", "I64")>>,
                     <<E1i64, D0>>, <<E1, D0rw>>},
        shape \in {NoData, DataShape(<<"m::d0">>, <<"m::d1">>, <<>>)}}

\* ---- units that differ in the layout of their bytecode ----

CodeShapes ==
    {<<>>,                              \* no bytecode at all
     <<OpNop, OpEnd>>,                  \* bytecode without relocation
     <<OpCall(0), OpEnd>>,
     <<OpNop, OpCall(0), OpEnd>>}       \* a slot that is not 4-byte aligned

CodeUnits ==
    {WithFunctions([SymbolUnit(imports, <<>>, <<>>, NoData) EXCEPT !.name = "code"],
                   <<"m::k">>, <<0>>, <<0>>, <<instructions>>) :
        imports \in {<<>>, <<"std::h">>}, instructions \in CodeShapes}

\* the lists of 1..MaxUnits units drawn from a set of units
UnitLists(Units) == UNION {[1..n -> Units] : n \in 1..MaxUnits}

(***************************************************************************)
(* Linked modules: the inputs of the depth sort and of dynamic_link        *)
(***************************************************************************)

\* the increasing sequence of the members of a set of numbers
RECURSIVE Ascending(_)
Ascending(S) ==
    IF S = {} THEN <<>>
    ELSE LET least == CHOOSE n \in S : \A m \in S : n <= m
         IN  <<least>> \o Ascending(S \ {least})

Reverse(v) == [k \in 1..Len(v) |-> v[Len(v) + 1 - k]]

\* the orders in which the elements of a sequence can stand
Orderings(v) ==
    {[k \in 1..Len(v) |-> v[p[k]]] :
        p \in {q \in [1..Len(v) -> 1..Len(v)] : \A i, j \in 1..Len(v) : i # j => q[i] # q[j]}}

\* ---- modules that differ in the modules they import ----

MaxModules == 3
ModuleNames == <<"app", "b", "c", "d", "e">>

\* a module that imports the modules of the given names and nothing else;
\* with_self puts the self-reference entry in front
GraphModule(name, dependency_names, with_self) ==
    [EmptyUnit EXCEPT
        !.name = name,
        !.image_type = "SharedModule",
        !.import_module_entries =
            (IF with_self THEN <<self_reference_entry>> ELSE <<>>)
                \o [k \in 1..Len(dependency_names) |->
                       DependencyEntry(dependency_names[k], Runtime)]]

\* the edges a graph over the first MaxModules names can have: a module
\* imports modules of a later name only, which leaves out the cycles
GraphEdges == {e \in (1..MaxModules) \X (1..MaxModules) : e[1] < e[2]}

\* the module of number n in the graph of the given edges
ModuleOfGraph(edges, n, descending, with_self) ==
    LET targets == Ascending({m \in 1..MaxModules : <<n, m>> \in edges})
        names == [k \in 1..Len(targets) |-> ModuleNames[targets[k]]]
    IN  GraphModule(ModuleNames[n], IF descending THEN Reverse(names) ELSE names, with_self)

\* The arrays of a graph: the application, then some of the other modules
\* in some order.  A module left out is a dependency that was not supplied,
\* a module nobody imports is a dangling module.
GraphArrays ==
    {[k \in 1..Len(numbers) + 1 |->
        ModuleOfGraph(edges, IF k = 1 THEN 1 ELSE numbers[k - 1], descending, with_self)] :
        edges \in SUBSET GraphEdges,
        numbers \in SeqsNoRep(2..MaxModules, MaxModules - 1),
        descending \in BOOLEAN, with_self \in BOOLEAN}

\* the graph of test_sort_modules (dynamic_linker.rs:684-695)
S1Modules ==
    <<GraphModule("a", <<"b", "c", "d", "e">>, FALSE), GraphModule("b", <<"j">>, FALSE),
      GraphModule("c", <<"g">>, FALSE), GraphModule("d", <<"g", "h">>, FALSE),
      GraphModule("e", <<"f">>, FALSE), GraphModule("f", <<"d">>, FALSE),
      GraphModule("g", <<"j">>, FALSE), GraphModule("h", <<"i">>, FALSE),
      GraphModule("i", <<"j">>, FALSE), GraphModule("j", <<>>, FALSE)>>

\* arrays whose import graph has a cycle: two modules that import each
\* other, a cycle the application is not on, a module that imports itself
\* by its name
CyclicArrays ==
    {<<GraphModule("app", <<"b">>, FALSE), GraphModule("b", <<"app">>, FALSE)>>,
     <<GraphModule("app", <<"b">>, TRUE), GraphModule("b", <<"c">>, FALSE),
       GraphModule("c", <<"b">>, FALSE)>>,
     <<GraphModule("app", <<"b", "c">>, FALSE), GraphModule("c", <<"app">>, FALSE),
       GraphModule("b", <<>>, FALSE)>>,
     <<GraphModule("app", <<"app">>, FALSE)>>}

\* ---- modules that differ in the symbols they import, define and declare ----

ModuleShape(name) ==
    [name |-> name, modules |-> <<>>, function_imports |-> <<>>, functions |-> <<>>,
     data_imports |-> <<>>, data |-> <<>>, libraries |-> <<>>, externals |-> <<>>]
ImportFunction(module, full_name, type_entry) ==
    [module |-> module, full_name |-> full_name, type_entry |-> type_entry]
Function(full_name, visibility, type_entry) ==
    [full_name |-> full_name, visibility |-> visibility, type_entry |-> type_entry]
ImportDatum(module, full_name, data_section_type) ==
    [module |-> module, full_name |-> full_name, data_section_type |-> data_section_type]
Datum(full_name, visibility, section_type) ==
    [full_name |-> full_name, visibility |-> visibility, section_type |-> section_type]

\* the entries of a sequence that `keep` marks, in order
RECURSIVE Select(_, _)
Select(v, keep) ==
    IF v = <<>> THEN <<>>
    ELSE (IF Head(keep) THEN <<Head(v)>> ELSE <<>>) \o Select(Tail(v), Tail(keep))

\* The linked module of a shape.  Its import modules are the self-reference
\* entry and the modules of the shape; its types are those its functions and
\* declarations use, in the order of first use; its data and export-data
\* entries stand in section order, one export entry for every datum and for
\* every function.
LinkedModule(shape) ==
    LET modules ==
            <<self_reference_entry>>
                \o [k \in 1..Len(shape.modules) |-> DependencyEntry(shape.modules[k], Runtime)]
        types ==
            Distinct([k \in 1..Len(shape.function_imports) |->
                         shape.function_imports[k].type_entry]
                     \o [k \in 1..Len(shape.functions) |-> shape.functions[k].type_entry]
                     \o [k \in 1..Len(shape.externals) |-> shape.externals[k].type_entry])
        TypeIndex(type_entry) == Position([n \in 1..Len(types) |-> types[n] = type_entry])
        ModuleIndex(name) == Position([n \in 1..Len(modules) |-> modules[n].name = name])
        InSection(section_type) ==
            Select(shape.data,
                   [k \in 1..Len(shape.data) |-> shape.data[k].section_type = section_type])
    IN  [EmptyUnit EXCEPT
            !.name = shape.name,
            !.image_type = "SharedModule",
            !.import_module_entries = modules,
            !.type_entries = types,
            !.import_function_entries =
                [k \in 1..Len(shape.function_imports) |->
                    [full_name |-> shape.function_imports[k].full_name,
                     import_module_index |-> ModuleIndex(shape.function_imports[k].module),
                     type_index |-> TypeIndex(shape.function_imports[k].type_entry)]],
            !.function_entries =
                [k \in 1..Len(shape.functions) |->
                    FunctionEntry(TypeIndex(shape.functions[k].type_entry), 0, <<OpEnd>>)],
            !.relocate_list_entries =
                [k \in 1..Len(shape.functions) |-> RelocateListEntry(<<OpEnd>>)],
            !.export_function_entries =
                [k \in 1..Len(shape.functions) |->
                    [full_name |-> shape.functions[k].full_name,
                     visibility |-> shape.functions[k].visibility]],
            !.import_data_entries =
                [k \in 1..Len(shape.data_imports) |->
                    [full_name |-> shape.data_imports[k].full_name,
                     import_module_index |-> ModuleIndex(shape.data_imports[k].module),
                     data_section_type |-> shape.data_imports[k].data_section_type,
                     memory_data_type |-> "I32"]],
            !.read_only_data_entries =
                [k \in 1..Len(InSection("ReadOnly")) |->
                    [memory_data_type |-> "I32", data |-> <<k, 0, 0, 0>>]],
            !.read_write_data_entries =
                [k \in 1..Len(InSection("ReadWrite")) |->
                    [memory_data_type |-> "I32", data |-> <<k, 0, 0, 0>>]],
            !.uninit_data_entries =
                [k \in 1..Len(InSection("Uninit")) |->
                    [memory_data_type |-> "I32", length |-> 4]],
            !.export_data_entries =
                InSection("ReadOnly") \o InSection("ReadWrite") \o InSection("Uninit"),
            !.external_library_entries = shape.libraries,
            !.external_function_entries =
                [k \in 1..Len(shape.externals) |->
                    [name |-> shape.externals[k].name,
                     external_library_index |->
                         Position([n \in 1..Len(shape.libraries) |->
                             shape.libraries[n] = shape.externals[k].library]),
                     type_index |-> TypeIndex(shape.externals[k].type_entry)]]]

TBinary == TypeEntry(<<"I32", "I32">>, <<"I32">>)
TUnary == TypeEntry(<<"I32">>, <<"I32">>)
TPair == TypeEntry(<<"I32", "I32">>, <<>>)

\* the modules of test_build_index_functions_and_data (dynamic_linker.rs:714-819)
S4Modules ==
    <<LinkedModule([ModuleShape("app") EXCEPT
          !.modules = <<"math", "std">>,
          !.function_imports = <<ImportFunction("std", "std::add", TBinary),
                                 ImportFunction("math", "math::inc", TUnary),
                                 ImportFunction("std", "std::sub", TBinary)>>,
          !.functions = <<Function("app::_start", "Private", T0),
                          Function("app::test", "Private", T1)>>,
          !.data_imports = <<ImportDatum("math", "math::MAGIC", "ReadOnly"),
                             ImportDatum("math", "math::POWER", "ReadOnly"),
                             ImportDatum("std", "std::errno", "Uninit")>>,
          !.data = <<Datum("app::foo", "Private", "ReadWrite"),
                     Datum("app::bar", "Private", "ReadWrite")>>]),
      LinkedModule([ModuleShape("math") EXCEPT
          !.modules = <<"std">>,
          !.function_imports = <<ImportFunction("std", "std::sub", TBinary),
                                 ImportFunction("std", "std::add", TBinary)>>,
          !.functions = <<Function("math::inc", "Public", TUnary)>>,
          !.data_imports = <<ImportDatum("std", "std::errno", "Uninit")>>,
          !.data = <<Datum("math::MAGIC", "Public", "ReadOnly"),
                     Datum("math::POWER", "Public", "ReadOnly")>>]),
      LinkedModule([ModuleShape("std") EXCEPT
          !.functions = <<Function("std::add", "Public", TBinary),
                          Function("std::sub", "Public", TBinary)>>,
          !.data = <<Datum("std::errno", "Public", "Uninit")>>])>>

SystemLibrary(name) == DependencyEntry(name, System(name))

\* the modules of test_build_index_external_functions (dynamic_linker.rs:950-1058)
S5Modules ==
    <<LinkedModule([ModuleShape("app") EXCEPT
          !.modules = <<"math", "std">>,
          !.functions = <<Function("app::_start", "Private", T1)>>,
          !.libraries = <<SystemLibrary("foo"), SystemLibrary("bar"), SystemLibrary("hello")>>,
          !.externals = <<ExternalFunction("x", SystemLibrary("hello"), TBinary),
                          ExternalFunction("b", SystemLibrary("foo"), TUnary),
                          ExternalFunction("m", SystemLibrary("bar"), TPair),
                          ExternalFunction("y", SystemLibrary("hello"), T2)>>]),
      LinkedModule([ModuleShape("math") EXCEPT
          !.functions = <<Function("math::do_that", "Private", T0)>>,
          !.libraries = <<SystemLibrary("bar"), SystemLibrary("foo"), SystemLibrary("world")>>,
          !.externals = <<ExternalFunction("m", SystemLibrary("bar"), TPair),
                          ExternalFunction("n", SystemLibrary("bar"), T2),
                          ExternalFunction("a", SystemLibrary("foo"), TBinary),
                          ExternalFunction("p", SystemLibrary("world"), T1),
                          ExternalFunction("q", SystemLibrary("world"), T0)>>]),
      LinkedModule([ModuleShape("std") EXCEPT
          !.functions = <<Function("std::do_this", "Private", T1)>>,
          !.libraries = <<SystemLibrary("foo")>>,
          !.externals = <<ExternalFunction("a", SystemLibrary("foo"), TBinary),
                          ExternalFunction("b", SystemLibrary("foo"), TUnary)>>])>>

\* the function tables of std: add and sub in either order, add Public,
\* Private or of another type
StdFunctionTables ==
    {table \in SeqsNoRep({Function("std::add", "Public", TBinary),
                          Function("std::add", "Private", TBinary),
                          Function("std::add", "Public", TUnary),
                          Function("std::add", "Private", TUnary),
                          Function("std::sub", "Public", TBinary)}, 2) :
        \A i, j \in 1..Len(table) : i # j => table[i].full_name # table[j].full_name}

AppFunctionImports ==
    SeqsNoRep({ImportFunction("std", "std::add", TBinary),
               ImportFunction("std", "std::sub", TBinary),
               ImportFunction("math", "math::inc", TUnary)}, 2)

MathModule ==
    LinkedModule([ModuleShape("math") EXCEPT
        !.functions = <<Function("math::inc", "Public", TUnary)>>,
        !.data = <<Datum("math::MAGIC", "Public", "ReadOnly")>>])

\* app, math and std, the last two in either order; app imports functions
\* of both
FunctionArrays ==
    UNION {LET app == LinkedModule([ModuleShape("app") EXCEPT
                          !.modules = <<"math", "std">>,
                          !.function_imports = imports,
                          !.functions = <<Function("app::_start", "Private", T0),
                                          Function("app::test", "Private", T1)>>])
               std == LinkedModule([ModuleShape("std") EXCEPT !.functions = table])
           IN  {<<app, MathModule, std>>, <<app, std, MathModule>>} :
           imports \in AppFunctionImports, table \in StdFunctionTables}

\* the data tables of std: each of three data, one per section, is Public,
\* Private or absent
StdDataTables ==
    {Select(<<Datum("std::MAGIC", choice[1], "ReadOnly"),
              Datum("std::count", choice[2], "ReadWrite"),
              Datum("std::errno", choice[3], "Uninit")>>,
            [k \in 1..3 |-> choice[k] # "Absent"]) :
        choice \in [1..3 -> {"Public", "Private", "Absent"}]}

AppDataImports ==
    SeqsNoRep({ImportDatum("std", "std::MAGIC", "ReadOnly"),
               ImportDatum("std", "std::count", "ReadWrite"),
               ImportDatum("std", "std::errno", "Uninit"),
               ImportDatum("std", "std::count", "ReadOnly")}, 2)

\* app and std; app imports data of std and, in some arrays, a function that
\* std keeps Private
DataArrays ==
    {<<LinkedModule([ModuleShape("app") EXCEPT
           !.modules = <<"std">>,
           !.function_imports = function_imports,
           !.functions = <<Function("app::_start", "Private", T0)>>,
           !.data_imports = imports,
           !.data = <<Datum("app::bss", "Private", "Uninit"),
                      Datum("app::foo", "Private", "ReadWrite"),
                      Datum("app::bar", "Public", "ReadWrite"),
                      Datum("app::ro", "Private", "ReadOnly")>>]),
       LinkedModule([ModuleShape("std") EXCEPT
           !.functions = <<Function("std::add", "Public", TBinary),
                           Function("std::sub", "Private", TBinary)>>,
           !.data = table])>> :
        imports \in AppDataImports, table \in StdDataTables,
        function_imports \in {<<>>, <<ImportFunction("std", "std::add", TBinary)>>,
                              <<ImportFunction("std", "std::sub", TBinary)>>}}

LibBarNext == DependencyEntry("bar", Share(<<2, 0, 0>>))
LinkExternalUniverse ==
    ExternalUniverse
        \cup {ExternalFunction("m", LibBar, T2), ExternalFunction("m", LibBarNext, T2)}

\* the declarations of one module: two at most, of libraries of different names
ModuleExternals ==
    {externals \in SeqsNoRep(LinkExternalUniverse, 2) :
        \A i, j \in 1..Len(externals) :
            externals[i].library.name = externals[j].library.name
                => externals[i].library = externals[j].library}

\* app and std; each declares up to two external functions, its libraries
\* are those of its declarations in the order of first use
ExternalArrays ==
    {<<LinkedModule([ModuleShape("app") EXCEPT
           !.modules = <<"std">>,
           !.functions = <<Function("app::_start", "Private", T0)>>,
           !.libraries = Distinct([k \in 1..Len(app_externals) |-> app_externals[k].library]),
           !.externals = app_externals]),
       LinkedModule([ModuleShape("std") EXCEPT
           !.functions = <<Function("std::add", "Public", TBinary)>>,
           !.libraries = Distinct([k \in 1..Len(std_externals) |-> std_externals[k].library]),
           !.externals = std_externals])>> :
        app_externals \in ModuleExternals, std_externals \in ModuleExternals}

\* ---- applications that differ in the names of their functions ----

\* the module "hello" of test_build_index_entry_points, with the units the
\* test gives it and with the functions of each unit in source order
S6Modules ==
    <<LinkedModule([ModuleShape("hello") EXCEPT
        !.functions =
            [k \in 1..15 |->
                Function(<<"hello::_start", "hello::empty",
                           "hello::app::foo::_start", "hello::app::foo::empty",
                           "hello::app::bar::_start", "hello::app::bar::empty",
                           "hello::tests::foo::test_a", "hello::tests::foo::test_b",
                           "hello::tests::foo::empty",
                           "hello::tests::bar::test_c", "hello::tests::bar::test_d",
                           "hello::tests::bar::empty",
                           "hello::tests::common::baz::test_e",
                           "hello::tests::common::baz::test_f",
                           "hello::tests::common::baz::empty">>[k], "Public", T0)]])>>

\* full names that the patterns of find_entry_points match, and full names
\* that differ from them in one place
EntryFunctionNames ==
    {"hello::_start", "hello::empty", "hello::app::foo::_start", "hello::app::_start",
     "hello::app::foo::bar::_start", "hello::tests::foo::test_a", "hello::tests::foo::test_",
     "hello::tests::common::baz::test_e", "hello::tests::test_a", "std::_start"}

\* hello and std; hello exports two functions at most and imports the
\* function of std or nothing
EntryArrays ==
    {<<LinkedModule([ModuleShape("hello") EXCEPT
           !.modules = <<"std">>,
           !.function_imports = imports,
           !.functions = [k \in 1..Len(names) |-> Function(names[k], visibility, T0)]]),
       LinkedModule([ModuleShape("std") EXCEPT
           !.functions = <<Function("std::add", "Public", TBinary)>>])>> :
        names \in SeqsNoRep(EntryFunctionNames, 2),
        imports \in {<<>>, <<ImportFunction("std", "std::add", TBinary)>>},
        visibility \in Visibility}

\* ---- the same modules in different orders ----

\* the declarations of one module: two at most, of one function of the
\* library foo with either of two types and of one function of the library bar
PermutedExternals ==
    SeqsNoRep({ExternalFunction("a", LibFoo, T1), ExternalFunction("a", LibFoo, T2),
               ExternalFunction("a", LibBar, T2)}, 2)

\* app, math and std, the last two in either order; app imports a function
\* of each and a datum of math, math and std declare up to two external
\* functions each, and math imports std or does not
PermutedArrays ==
    UNION {LET app == LinkedModule([ModuleShape("app") EXCEPT
                          !.modules = <<"math", "std">>,
                          !.function_imports =
                              <<ImportFunction("std", "std::add", TBinary),
                                ImportFunction("math", "math::inc", TUnary)>>,
                          !.functions = <<Function("app::_start", "Public", T0)>>,
                          !.data_imports = <<ImportDatum("math", "math::MAGIC", "ReadOnly")>>])
               math == LinkedModule([ModuleShape("math") EXCEPT
                          !.modules = math_modules,
                          !.functions = <<Function("math::inc", "Public", TUnary)>>,
                          !.data = <<Datum("math::MAGIC", "Public", "ReadOnly")>>,
                          !.libraries =
                              Distinct([k \in 1..Len(math_externals) |->
                                           math_externals[k].library]),
                          !.externals = math_externals])
               std == LinkedModule([ModuleShape("std") EXCEPT
                          !.functions = <<Function("std::add", "Public", TBinary)>>,
                          !.libraries =
                              Distinct([k \in 1..Len(std_externals) |->
                                           std_externals[k].library]),
                          !.externals = std_externals])
           IN  {<<app, math, std>>, <<app, std, math>>} :
           math_externals \in PermutedExternals, std_externals \in PermutedExternals,
           math_modules \in {<<>>, <<"std">>}}

\* ---- two modules whose imports may fail ----

\* the imports of a function of std that resolve, name no export, name a
\* Private export or give another type
StdImports ==
    {ImportFunction("std", "std::add", TBinary), ImportFunction("std", "std::none", TBinary),
     ImportFunction("std", "std::sub", TBinary), ImportFunction("std", "std::add", TUnary)}

\* app, math and std in either order of the last two; app imports math and
\* std, math imports std, and app and math import up to two functions of std
FailingArrays ==
    UNION {LET app == LinkedModule([ModuleShape("app") EXCEPT
                          !.modules = <<"math", "std">>,
                          !.function_imports = app_imports,
                          !.functions = <<Function("app::_start", "Public", T0)>>])
               math == LinkedModule([ModuleShape("math") EXCEPT
                          !.modules = <<"std">>,
                          !.function_imports = math_imports,
                          !.functions = <<Function("math::inc", "Public", TUnary)>>])
               std == LinkedModule([ModuleShape("std") EXCEPT
                          !.functions = <<Function("std::add", "Public", TBinary),
                                          Function("std::sub", "Private", TBinary)>>])
           IN  {<<app, math, std>>, <<app, std, math>>} :
           app_imports \in SeqsNoRep(StdImports, 2), math_imports \in SeqsNoRep(StdImports, 2)}

(***************************************************************************)
(* The state machine                                                       *)
(***************************************************************************)

VARIABLES
    submodule_entries,      \* the units handed to static_link
    finalize_internal_functions_reference,
    status,                 \* "Init", then "Ok" | "Err" | "Panic"
    error,                  \* the LinkerError of an Err
    merged_image_common_entry,  \* the ImageCommonEntry of an Ok
    remaps                  \* the remap vectors static_link built

VARIABLES
    version_left,           \* the version strings handed to compare_version,
    version_right,          \* as the sequences of their parts
    version_result          \* "Init", then the result or "Panic"

VARIABLES
    image_common_entries_input,     \* the modules as handed to the depth sort
    image_common_entries,           \* the modules, in place: sorted by an Ok sort
    dependency_with_deepth_items,   \* the <<module name, max deepth>> items
    pending_module_items,           \* the queue of <<module, deepth>> to visit
    sort_status,                    \* "Traversing", then "Ok" | "Err" | "Panic"
    sort_error,                     \* the LinkerError of an Err
    link_status,                    \* "Init", then "Ok" | "Err" | "Panic"
    link_error,                     \* the LinkerError of an Err
    image_index_entry               \* the ImageIndexEntry of an Ok

static_vars == <<submodule_entries, finalize_internal_functions_reference, status, error,
                 merged_image_common_entry, remaps>>
version_vars == <<version_left, version_right, version_result>>
sort_vars == <<image_common_entries_input, image_common_entries, dependency_with_deepth_items,
               pending_module_items, sort_status, sort_error>>
link_vars == <<link_status, link_error, image_index_entry>>
vars == <<static_vars, version_vars, sort_vars, link_vars>>

\* no call of static_link is under way
StaticIdle ==
    /\ submodule_entries = <<>>
    /\ finalize_internal_functions_reference = FALSE
    /\ status = "Idle"
    /\ error = NoError
    /\ merged_image_common_entry = NoImage
    /\ remaps = NoRemaps

\* no call of compare_version is under way
VersionIdle ==
    /\ version_left = <<>>
    /\ version_right = <<>>
    /\ version_result = "Idle"

\* no module awaits the depth sort or dynamic_link
DynamicIdle ==
    /\ image_common_entries_input = <<>>
    /\ image_common_entries = <<>>
    /\ dependency_with_deepth_items = <<>>
    /\ pending_module_items = <<>>
    /\ sort_status = "Idle"
    /\ sort_error = NoError
    /\ link_status = "Idle"
    /\ link_error = NoError
    /\ image_index_entry = NoIndex

InitWith(UnitListSet) ==
    /\ submodule_entries \in UnitListSet
    /\ finalize_internal_functions_reference = FALSE
    /\ status = "Init"
    /\ error = NoError
    /\ merged_image_common_entry = NoImage
    /\ remaps = NoRemaps
    /\ VersionIdle
    /\ DynamicIdle

\* some relocation slot of some unit does not lie on a 4-byte boundary
HasMisalignedSlot ==
    \E u \in 1..Len(submodule_entries) :
        \E k \in 1..Len(submodule_entries[u].relocate_list_entries) :
            LET list == submodule_entries[u].relocate_list_entries[k].relocate_entries
            IN  \E r \in 1..Len(list) : list[r].code_offset % 4 # 0

\* One call of static_link.  `submodule_entries[0]` of an empty list panics
\* (static_linker.rs:286).  A slot off a 4-byte boundary is dereferenced
\* through a misaligned `*mut u32` (static_linker.rs:1095-1096, 1120):
\* undefined behaviour, which a build either traps or performs as the
\* unaligned access.  The relocation runs after the mergers that can fail
\* and before the check of the internal references.
StaticLink ==
    /\ status = "Init"
    /\ \E finalize \in BOOLEAN :
        /\ finalize_internal_functions_reference' = finalize
        /\ IF submodule_entries = <<>>
           THEN /\ status' = "Panic"
                /\ UNCHANGED <<error, merged_image_common_entry, remaps>>
           ELSE LET r == static_link("merged", finalize, submodule_entries)
                IN  \/ /\ status' = r.status
                       /\ error' = r.error
                       /\ merged_image_common_entry' = r.image
                       /\ remaps' = r.remaps
                    \/ /\ r.error.type \in {"", "FunctionNotFound", "DataNotFound"}
                       /\ HasMisalignedSlot
                       /\ status' = "Panic"
                       /\ UNCHANGED <<error, merged_image_common_entry, remaps>>
    /\ UNCHANGED <<submodule_entries, version_vars, sort_vars, link_vars>>

Next == StaticLink

\* the links of units that differ in the symbols they import and define
SymbolLinks == UnitLists(FunctionUnits) \cup UnitLists(DataUnits) \cup UnitLists(MixedUnits)

\* the links of units that differ in their tables
TableLinks ==
    UnitLists(TypeUnits) \cup UnitLists(ModuleUnits) \cup UnitLists(ExternalUnits)
        \cup UnitLists(DependencyUnits)

\* the links of units that differ in the layout of their bytecode, and the
\* link of no unit
CodeLinks == UnitLists(CodeUnits) \cup {<<>>}

InitSymbols == InitWith(SymbolLinks \cup CodeLinks)
InitTables == InitWith(TableLinks \cup CodeLinks)

\* static_link applied to the links that differ in their symbols
SpecSymbols == InitSymbols /\ [][Next]_vars

\* static_link applied to the links that differ in their tables
SpecTables == InitTables /\ [][Next]_vars

InitImportedData == InitWith(UnitLists(ImportedDataUnits))

\* static_link applied to the links of units that import a datum another
\* unit defines
SpecImportedData == InitImportedData /\ [][Next]_vars

\* A call of static_link that follows another: the first call is that of
\* StaticLink; a later call takes the module of the successful call before
\* it as the only unit, with the name and the flag of that call.  The
\* misaligned slots of the units are those of the module, at the same
\* offsets: the build that performed the access in the first call performs
\* it in the later ones.
StaticLinkAgain ==
    /\ status \in {"Init", "Ok"}
    /\ status = "Ok" => submodule_entries # <<merged_image_common_entry>>
    /\ \E finalize \in IF status = "Init" THEN BOOLEAN
                       ELSE {finalize_internal_functions_reference} :
        /\ finalize_internal_functions_reference' = finalize
        /\ IF status = "Init" /\ submodule_entries = <<>>
           THEN /\ status' = "Panic"
                /\ UNCHANGED <<submodule_entries, error, merged_image_common_entry, remaps>>
           ELSE LET units == IF status = "Init" THEN submodule_entries
                             ELSE <<merged_image_common_entry>>
                    r == static_link("merged", finalize, units)
                IN  \/ /\ submodule_entries' = units
                       /\ status' = r.status
                       /\ error' = r.error
                       /\ merged_image_common_entry' = r.image
                       /\ remaps' = r.remaps
                    \/ /\ status = "Init"
                       /\ r.error.type \in {"", "FunctionNotFound", "DataNotFound"}
                       /\ HasMisalignedSlot
                       /\ status' = "Panic"
                       /\ UNCHANGED <<submodule_entries, error, merged_image_common_entry,
                                      remaps>>
    /\ UNCHANGED <<version_vars, sort_vars, link_vars>>

NextRelink == StaticLinkAgain

\* the links of units that import and define functions and data, declare
\* external functions or differ in their bytecode
InitRelink ==
    InitWith(UnitLists(MixedUnits) \cup UnitLists(DataUnits) \cup UnitLists(ExternalUnits)
                \cup CodeLinks)

\* static_link, and static_link again on its result
SpecRelink == InitRelink /\ [][NextRelink]_vars

(***************************************************************************)
(* compare_version on its own                                              *)
(***************************************************************************)

\* the most a part of a version is, the two ends of the 16-bit range apart
MaxVersionField == 1

\* the parts of the version strings: small ones, the largest that fits 16
\* bits and the smallest that does not
VersionFields == 0..MaxVersionField \cup {65535, 65536}

InitVersions ==
    /\ version_left \in [1..3 -> VersionFields]
    /\ version_right \in [1..3 -> VersionFields]
    /\ version_result = "Init"
    /\ StaticIdle
    /\ DynamicIdle

\* one call of compare_version(left, right)
CompareVersion ==
    /\ version_result = "Init"
    /\ version_result' =
           IF parse_version(version_left) = <<>> \/ parse_version(version_right) = <<>>
           THEN "Panic"
           ELSE compare_version(parse_version(version_left), parse_version(version_right))
    /\ UNCHANGED <<version_left, version_right, static_vars, sort_vars, link_vars>>

NextVersions == CompareVersion

\* compare_version applied to pairs of version strings
SpecVersions == InitVersions /\ [][NextVersions]_vars

(***************************************************************************)
(* sort_modules_by_dependent_deepth and dynamic_link, step by step         *)
(***************************************************************************)

\* the locations handed to dynamic_link with the modules: one per module, in
\* the opposite order ("can be unsorted")
dynamic_link_module_entries_of(entries) ==
    Reverse([m \in 1..Len(entries) |->
                [name |-> entries[m].name,
                 location |-> IF m = 1 THEN "Embed" ELSE "Runtime"]])

\* the state in front of the while loop (dynamic_linker.rs:72-97)
InitDynamic(ArraySet) ==
    /\ image_common_entries_input \in ArraySet
    /\ image_common_entries = image_common_entries_input
    /\ dependency_with_deepth_items = <<<<image_common_entries_input[1].name, 0>>>>
    /\ pending_module_items = <<<<image_common_entries_input[1], 0>>>>
    /\ sort_status = "Traversing"
    /\ sort_error = NoError
    /\ link_status = "Init"
    /\ link_error = NoError
    /\ image_index_entry = NoIndex
    /\ StaticIdle
    /\ VersionIdle

\* the deepth up to which the turns of the while loop are followed; the
\* loop has no such limit, and no array without a cycle gets there
MaxDeepth == 7

\* one turn of the while loop (dynamic_linker.rs:99-142)
Traverse ==
    /\ sort_status = "Traversing"
    /\ pending_module_items # <<>>
    /\ Head(pending_module_items)[2] < MaxDeepth
    /\ LET parent_module == Head(pending_module_items)[1]
           parent_depth == Head(pending_module_items)[2]
           r == visit_dependencies(image_common_entries,
                                   parent_module.import_module_entries,
                                   dependency_with_deepth_items,
                                   Tail(pending_module_items), parent_depth + 1)
       IN  /\ dependency_with_deepth_items' = r.items
           /\ pending_module_items' = r.pending
           /\ sort_status' = IF r.panic THEN "Panic" ELSE "Traversing"
    /\ UNCHANGED <<image_common_entries_input, image_common_entries, sort_error,
                   static_vars, version_vars, link_vars>>

\* what follows the while loop (dynamic_linker.rs:144-174); a comparison
\* that panics leaves the modules in an order sort_by does not specify
FinishSort ==
    /\ sort_status = "Traversing"
    /\ pending_module_items = <<>>
    /\ LET r == finish_sort(image_common_entries, dependency_with_deepth_items)
       IN  /\ sort_status' = r.status
           /\ sort_error' = r.error
           /\ dependency_with_deepth_items' = r.items
           /\ image_common_entries' \in
                  IF r.status = "Panic" THEN Orderings(image_common_entries)
                  ELSE {r.entries}
    /\ UNCHANGED <<image_common_entries_input, pending_module_items,
                   static_vars, version_vars, link_vars>>

\* dynamic_link on the sorted modules (dynamic_linker.rs:177-410)
DynamicLink ==
    /\ sort_status = "Ok"
    /\ link_status = "Init"
    /\ LET r == dynamic_link(image_common_entries,
                             dynamic_link_module_entries_of(image_common_entries_input))
       IN  /\ link_status' = r.status
           /\ link_error' = r.error
           /\ image_index_entry' = r.image_index_entry
    /\ UNCHANGED <<static_vars, version_vars, sort_vars>>

NextDynamic == Traverse \/ FinishSort \/ DynamicLink

InitGraphs == InitDynamic(GraphArrays \cup {S1Modules})

\* the depth sort and dynamic_link on modules that differ in their imports
SpecGraphs == InitGraphs /\ [][NextDynamic]_vars

InitTraversal == InitDynamic(GraphArrays \cup CyclicArrays \cup {S1Modules})

\* the depth sort on import graphs with and without cycles; the while loop
\* takes its next turn as long as the queue holds a module
SpecTraversal == InitTraversal /\ [][NextDynamic]_vars /\ WF_vars(Traverse)

InitLinks ==
    InitDynamic(FunctionArrays \cup DataArrays \cup ExternalArrays \cup {S4Modules, S5Modules})

\* the depth sort and dynamic_link on modules that differ in their symbols
SpecLinks == InitLinks /\ [][NextDynamic]_vars

InitEntries == InitDynamic(EntryArrays \cup {S6Modules})

\* the depth sort and dynamic_link on applications that differ in the names
\* of their functions
SpecEntries == InitEntries /\ [][NextDynamic]_vars

InitOrders ==
    InitDynamic(PermutedArrays \cup FunctionArrays \cup FailingArrays \cup GraphArrays
                    \cup {S4Modules, S5Modules})

\* the depth sort and dynamic_link on the same modules in different orders
SpecOrders == InitOrders /\ [][NextDynamic]_vars

(***************************************************************************)
(* What the claims speak of, stated on the units and on the result         *)
(***************************************************************************)

Units == submodule_entries
Image == merged_image_common_entry
UnitIndices == 1..Len(Units)

FullNames(entries) == {entries[k].full_name : k \in 1..Len(entries)}

\* the full names some unit of the link set exports
ExportedFunctionNames == UNION {FullNames(Units[u].export_function_entries) : u \in UnitIndices}
ExportedDataNames == UNION {FullNames(Units[u].export_data_entries) : u \in UnitIndices}

\* unit u imports its i-th function (datum) from the self-reference module
FunctionImportOfSelf(u, i) ==
    At(Units[u].import_module_entries,
       Units[u].import_function_entries[i].import_module_index) = self_reference_entry
DataImportOfSelf(u, i) ==
    At(Units[u].import_module_entries,
       Units[u].import_data_entries[i].import_module_index) = self_reference_entry

\* C1: after a successful static_link no merged import function (import
\* datum) has a full name that the merged export-function (export-data) table
\* holds too, and every import of a unit whose name some unit exports is
\* remapped to an internal public index, not to an import.
C1_NoImportOfExportedName ==
    status = "Ok" =>
        /\ FullNames(Image.import_function_entries)
               \cap FullNames(Image.export_function_entries) = {}
        /\ FullNames(Image.import_data_entries)
               \cap FullNames(Image.export_data_entries) = {}
        /\ \A u \in UnitIndices :
               /\ \A i \in 1..Len(Units[u].import_function_entries) :
                      Units[u].import_function_entries[i].full_name \in ExportedFunctionNames
                          => remaps.function_public_remap_indices_list[u][i]
                                 >= Len(Image.import_function_entries)
               /\ \A i \in 1..Len(Units[u].import_data_entries) :
                      Units[u].import_data_entries[i].full_name \in ExportedDataNames
                          => remaps.data_public_remap_indices_list[u][i]
                                 >= Len(Image.import_data_entries)

\* C1 witness: a link succeeded in which the first unit imports a function and
\* a datum that only the second unit defines, and an import of another name
\* stays in each merged import table.
C1_Witness ==
    /\ status = "Ok"
    /\ Len(Units) = 2
    /\ \E i \in 1..Len(Units[1].import_function_entries) :
           /\ Units[1].import_function_entries[i].full_name
                  \in FullNames(Units[2].export_function_entries)
           /\ Units[1].import_function_entries[i].full_name
                  \notin FullNames(Units[1].export_function_entries)
    /\ \E i \in 1..Len(Units[1].import_data_entries) :
           /\ Units[1].import_data_entries[i].full_name
                  \in FullNames(Units[2].export_data_entries)
           /\ Units[1].import_data_entries[i].full_name
                  \notin FullNames(Units[1].export_data_entries)
    /\ Image.import_function_entries # <<>>
    /\ Image.import_data_entries # <<>>

\* the positions (0-based) of the self-reference entry in the merged
\* import-module table
SelfPositions ==
    {k - 1 : k \in {j \in 1..Len(Image.import_module_entries) :
                       Image.import_module_entries[j] = self_reference_entry}}

\* C2: an Ok with finalize_internal_references = true is a SharedModule none
\* of whose import functions and import data refers to the self-reference
\* import module; an Ok with the flag false is an ObjectFile, and without the
\* flag static_link never fails with FunctionNotFound or DataNotFound.
C2_SharedModuleIsClosed ==
    /\ (status = "Ok" /\ finalize_internal_functions_reference) =>
           /\ Image.image_type = "SharedModule"
           /\ \A i \in 1..Len(Image.import_function_entries) :
                  Image.import_function_entries[i].import_module_index \notin SelfPositions
           /\ \A i \in 1..Len(Image.import_data_entries) :
                  Image.import_data_entries[i].import_module_index \notin SelfPositions
    /\ (status = "Ok" /\ ~finalize_internal_functions_reference) =>
           Image.image_type = "ObjectFile"
    /\ (status = "Err" /\ ~finalize_internal_functions_reference) =>
           error.type \notin {"FunctionNotFound", "DataNotFound"}

\* C2 witness: a finalized link succeeded although units import functions and
\* data from the self-reference module (all of them defined by some unit),
\* and the merged module still has an import from another module.
C2_Witness ==
    /\ status = "Ok"
    /\ finalize_internal_functions_reference
    /\ SelfPositions # {}
    /\ \E u \in UnitIndices : \E i \in 1..Len(Units[u].import_function_entries) :
           FunctionImportOfSelf(u, i)
    /\ \E u \in UnitIndices : \E i \in 1..Len(Units[u].import_data_entries) :
           DataImportOfSelf(u, i)
    /\ Image.import_function_entries # <<>>

MergeErrorTypes ==
    {"DependentNameConflict", "DependentSourceConflict", "DependentVersionConflict",
     "ImportDataSectionMismatch", "ImportDataSectionInconsistant",
     "ImportDataTypeInconsistant"}

SectionRank(section) ==
    CASE section = "ReadOnly" -> 0 [] section = "ReadWrite" -> 1 [] section = "Uninit" -> 2

\* The imports of the units in the order the merge visits them: functions by
\* unit, then by position; data by section, then unit, then position.
FunctionImportKeys ==
    UNION {{<<u, i>> : i \in 1..Len(Units[u].import_function_entries)} : u \in UnitIndices}
FunctionImportBefore(a, b) == a[1] < b[1] \/ (a[1] = b[1] /\ a[2] < b[2])
FunctionImportName(k) == Units[k[1]].import_function_entries[k[2]].full_name

DataImportKeys ==
    UNION {{<<u, i>> : i \in 1..Len(Units[u].import_data_entries)} : u \in UnitIndices}
DataImportSection(k) == Units[k[1]].import_data_entries[k[2]].data_section_type
DataImportName(k) == Units[k[1]].import_data_entries[k[2]].full_name
DataImportBefore(a, b) ==
    \/ SectionRank(DataImportSection(a)) < SectionRank(DataImportSection(b))
    \/ /\ DataImportSection(a) = DataImportSection(b)
       /\ (a[1] < b[1] \/ (a[1] = b[1] /\ a[2] < b[2]))

\* The imports that leave an entry in the merged table and refer to the
\* self-reference module: the first import of a name no unit exports.
UnresolvedFunctionImports ==
    {k \in FunctionImportKeys :
        /\ FunctionImportName(k) \notin ExportedFunctionNames
        /\ \A j \in FunctionImportKeys :
               FunctionImportBefore(j, k) => FunctionImportName(j) # FunctionImportName(k)
        /\ FunctionImportOfSelf(k[1], k[2])}
UnresolvedDataImports ==
    {k \in DataImportKeys :
        /\ DataImportName(k) \notin ExportedDataNames
        /\ \A j \in DataImportKeys :
               DataImportBefore(j, k) => DataImportName(j) # DataImportName(k)
        /\ DataImportOfSelf(k[1], k[2])}
FirstUnresolvedFunctionImport ==
    CHOOSE k \in UnresolvedFunctionImports :
        \A j \in UnresolvedFunctionImports : j = k \/ FunctionImportBefore(k, j)
FirstUnresolvedDataImport ==
    CHOOSE k \in UnresolvedDataImports :
        \A j \in UnresolvedDataImports : j = k \/ DataImportBefore(k, j)

\* C3: with finalize_internal_references = true and the tables merged without
\* error: if a merged import function still refers to the self-reference
\* module, static_link fails with FunctionNotFound of the first such entry in
\* merged order; otherwise, if a merged import datum does, with DataNotFound
\* of the first such entry; otherwise it succeeds.
C3_UnresolvedReferenceError ==
    (/\ status \in {"Ok", "Err"}
     /\ finalize_internal_functions_reference
     /\ error.type \notin MergeErrorTypes) =>
        IF UnresolvedFunctionImports # {}
        THEN /\ status = "Err"
             /\ error = LinkerError("FunctionNotFound",
                                    FunctionImportName(FirstUnresolvedFunctionImport))
        ELSE IF UnresolvedDataImports # {}
        THEN /\ status = "Err"
             /\ error = LinkerError("DataNotFound",
                                    DataImportName(FirstUnresolvedDataImport))
        ELSE status = "Ok"

\* C3 witness: a finalized link failed with FunctionNotFound while two
\* unresolved function imports and an unresolved data import were left.
C3_Witness ==
    /\ status = "Err"
    /\ error.type = "FunctionNotFound"
    /\ Cardinality(UnresolvedFunctionImports) >= 2
    /\ UnresolvedDataImports # {}

\* C3 witness of the second case: only data was left unresolved
C3_WitnessData ==
    /\ status = "Err"
    /\ error.type = "DataNotFound"
    /\ Cardinality(UnresolvedDataImports) >= 2

\* the value of the little-endian 32-bit slot at a 0-based byte offset
SlotValue(code, code_offset) ==
    code[code_offset + 1] + 256 * code[code_offset + 2] + 65536 * code[code_offset + 3]
        + 16777216 * code[code_offset + 4]

\* the number of functions of the units before unit u
FunctionsBefore(u) == Len(Flatten([v \in 1..(u - 1) |-> Units[v].function_entries]))

\* the functions of the link set: <<unit, position in the unit>>
FunctionKeys ==
    UNION {{<<u, k>> : k \in 1..Len(Units[u].function_entries)} : u \in UnitIndices}
SourceFunction(f) == Units[f[1]].function_entries[f[2]]
SourceRelocateEntries(f) == Units[f[1]].relocate_list_entries[f[2]].relocate_entries
LinkedFunction(f) == Image.function_entries[FunctionsBefore(f[1]) + f[2]]
LinkedRelocateList(f) == Image.relocate_list_entries[FunctionsBefore(f[1]) + f[2]]

\* the 1-based byte positions of the slots of a function
SlotBytes(f) ==
    UNION {(SourceRelocateEntries(f)[r].code_offset + 1)
               ..(SourceRelocateEntries(f)[r].code_offset + 4) :
           r \in 1..Len(SourceRelocateEntries(f))}

\* C4: the bytecode of every linked function is as long as the original,
\* every byte outside the 4-byte slots its relocation list names is unchanged,
\* and its relocation list entry is in the output unchanged.
C4_OnlySlotsChange ==
    status = "Ok" =>
        /\ Len(Image.function_entries) = Cardinality(FunctionKeys)
        /\ \A f \in FunctionKeys :
               /\ Len(LinkedFunction(f).code) = Len(SourceFunction(f).code)
               /\ \A b \in (1..Len(SourceFunction(f).code)) \ SlotBytes(f) :
                      LinkedFunction(f).code[b] = SourceFunction(f).code[b]
               /\ LinkedRelocateList(f) = Units[f[1]].relocate_list_entries[f[2]]

\* C4 witness: a link succeeded in which relocation changed a slot of a
\* function of the second unit, whose bytecode has bytes outside the slots.
C4_Witness ==
    /\ status = "Ok"
    /\ \E f \in FunctionKeys :
           /\ f[1] = 2
           /\ LinkedFunction(f).code # SourceFunction(f).code
           /\ (1..Len(SourceFunction(f).code)) \ SlotBytes(f) # {}

\* the slots of one relocate type of a function hold, in the output, the
\* image under `remap` of what they held in the unit
SlotsRemapped(f, relocate_type, remap) ==
    \A r \in 1..Len(SourceRelocateEntries(f)) :
        SourceRelocateEntries(f)[r].relocate_type = relocate_type =>
            SlotValue(LinkedFunction(f).code, SourceRelocateEntries(f)[r].code_offset)
                = At(remap, SlotValue(SourceFunction(f).code,
                                      SourceRelocateEntries(f)[r].code_offset))

\* the position (0-based) of the first entry of a full name
NamePosition(entries, full_name) == Position([n \in 1..Len(entries) |->
                                        LET item == entries[n]
                                        IN  item.full_name = full_name])

\* what C5 says the function public index p (0-based) of unit u is remapped to
ExpectedFunctionPublicIndex(u, p) ==
    LET import_count == Len(Units[u].import_function_entries)
        merged_import_function_count == Len(Image.import_function_entries)
    IN  IF p < import_count
        THEN LET full_name == Units[u].import_function_entries[p + 1].full_name
             IN  IF full_name \in FullNames(Image.export_function_entries)
                 THEN merged_import_function_count
                          + NamePosition(Image.export_function_entries, full_name)
                 ELSE NamePosition(Image.import_function_entries, full_name)
        ELSE merged_import_function_count
                 + Len(Flatten([v \in 1..(u - 1) |-> Units[v].export_function_entries]))
                 + (p - import_count)

FunctionPublicCount(u) ==
    Len(Units[u].import_function_entries) + Len(Units[u].export_function_entries)

\* C5: the function public index remap of every unit is: an import whose name
\* is in the concatenated export-function table at k -> merged import count +
\* k; another import -> the position of its name in the merged import table;
\* internal function j -> merged import count + number of export functions of
\* the units before + j; and every FunctionPublicIndex slot is rewritten so.
C5_FunctionPublicRemap ==
    status = "Ok" =>
        /\ \A u \in UnitIndices :
               /\ Len(remaps.function_public_remap_indices_list[u]) = FunctionPublicCount(u)
               /\ \A p \in 0..(FunctionPublicCount(u) - 1) :
                      /\ ExpectedFunctionPublicIndex(u, p) # None
                      /\ At(remaps.function_public_remap_indices_list[u], p)
                             = ExpectedFunctionPublicIndex(u, p)
        /\ \A f \in FunctionKeys :
               SlotsRemapped(f, "FunctionPublicIndex",
                             [p \in 1..FunctionPublicCount(f[1]) |->
                                 ExpectedFunctionPublicIndex(f[1], p - 1)])

\* C5 witness: a link of two units succeeded in which the second unit has an
\* import that became internal, an import that stayed an import, and an
\* internal function, and its bytecode calls all three.
C5_Witness ==
    /\ status = "Ok"
    /\ Len(Units) = 2
    /\ Units[1].export_function_entries # <<>>
    /\ Units[2].export_function_entries # <<>>
    /\ Image.import_function_entries # <<>>
    /\ \E i, j \in 1..Len(Units[2].import_function_entries) :
           /\ Units[2].import_function_entries[i].full_name \in ExportedFunctionNames
           /\ Units[2].import_function_entries[j].full_name \notin ExportedFunctionNames
    /\ \E f \in FunctionKeys :
           /\ f[1] = 2
           /\ Len(SourceRelocateEntries(f)) >= 3
           /\ LinkedFunction(f).code # SourceFunction(f).code

\* the entries of one section, order kept
InSection(export_data_entries, section) ==
    SelectSeq(export_data_entries, LAMBDA item : item.section_type = section)

\* the export-data entries of all units of one section, in unit order
SectionExportData(section) ==
    Flatten([u \in UnitIndices |-> InSection(Units[u].export_data_entries, section)])

\* the entries of a table lie in the order read-only, read-write, uninitialized
SectionOrdered(sections) ==
    \A i, j \in 1..Len(sections) :
        i < j => SectionRank(sections[i]) <= SectionRank(sections[j])

\* the position (0-based) in the merged export-data table that the ordering
\* [ro of all units][rw of all units][uninit of all units] gives to the i-th
\* (1-based) export-data entry of unit u
ExpectedInternalDataIndex(u, i) ==
    LET entry == Units[u].export_data_entries[i]
        EarlierSections ==
            {s \in {"ReadOnly", "ReadWrite", "Uninit"} :
                SectionRank(s) < SectionRank(entry.section_type)}
        in_earlier_sections ==
            Cardinality({<<v, k>> \in UnitIndices \X (1..Len(Image.export_data_entries)) :
                            /\ k <= Len(Units[v].export_data_entries)
                            /\ Units[v].export_data_entries[k].section_type
                                   \in EarlierSections})
        in_earlier_units ==
            Cardinality({<<v, k>> \in (1..(u - 1)) \X (1..Len(Image.export_data_entries)) :
                            /\ k <= Len(Units[v].export_data_entries)
                            /\ Units[v].export_data_entries[k].section_type
                                   = entry.section_type})
        earlier_in_unit ==
            Cardinality({k \in 1..(i - 1) :
                            Units[u].export_data_entries[k].section_type
                                = entry.section_type})
    IN  in_earlier_sections + in_earlier_units + earlier_in_unit

DataPublicCount(u) ==
    Len(Units[u].import_data_entries) + Len(Units[u].export_data_entries)

\* the full name of the datum that the data public index p (0-based) of unit
\* u denotes in the unit
SourceDataName(u, p) ==
    IF p < Len(Units[u].import_data_entries)
    THEN Units[u].import_data_entries[p + 1].full_name
    ELSE Units[u].export_data_entries[p - Len(Units[u].import_data_entries) + 1].full_name

\* the full name of the datum that a merged data public index denotes
LinkedDataName(index) ==
    IF index < Len(Image.import_data_entries)
    THEN Image.import_data_entries[index + 1].full_name
    ELSE Image.export_data_entries[index - Len(Image.import_data_entries) + 1].full_name

\* what C6 says the data public index p (0-based) of unit u is remapped to
ExpectedDataPublicIndex(u, p) ==
    LET import_count == Len(Units[u].import_data_entries)
        merged_import_data_count == Len(Image.import_data_entries)
    IN  IF p < import_count
        THEN LET full_name == Units[u].import_data_entries[p + 1].full_name
             IN  IF full_name \in FullNames(Image.export_data_entries)
                 THEN merged_import_data_count
                          + NamePosition(Image.export_data_entries, full_name)
                 ELSE NamePosition(Image.import_data_entries, full_name)
        ELSE merged_import_data_count
                 + ExpectedInternalDataIndex(u, p - import_count + 1)

\* C6: the merged data public index space is imports then internals, both in
\* the order read-only, read-write, uninitialized; the data public index
\* remap of every unit sends each index to the merged index of the datum of
\* the same full name (an import that some unit defines to that definition,
\* another import to the merged import of its name, an internal datum to its
\* own place in the merged export-data table); and every DataPublicIndex slot
\* is rewritten through that remap.
C6_DataPublicRemap ==
    status = "Ok" =>
        /\ SectionOrdered([k \in 1..Len(Image.import_data_entries) |->
                              Image.import_data_entries[k].data_section_type])
        /\ SectionOrdered([k \in 1..Len(Image.export_data_entries) |->
                              Image.export_data_entries[k].section_type])
        /\ \A u \in UnitIndices :
               /\ Len(remaps.data_public_remap_indices_list[u]) = DataPublicCount(u)
               /\ \A p \in 0..(DataPublicCount(u) - 1) :
                      /\ ExpectedDataPublicIndex(u, p) # None
                      /\ At(remaps.data_public_remap_indices_list[u], p)
                             = ExpectedDataPublicIndex(u, p)
                      /\ LinkedDataName(At(remaps.data_public_remap_indices_list[u], p))
                             = SourceDataName(u, p)
        /\ \A f \in FunctionKeys :
               SlotsRemapped(f, "DataPublicIndex",
                             [p \in 1..DataPublicCount(f[1]) |->
                                 ExpectedDataPublicIndex(f[1], p - 1)])

\* C6 witness: a link of two units succeeded whose merged import-data table
\* has two sections, whose second unit has an import that became internal, an
\* import that stayed an import and internal data of two sections, and whose
\* second unit's bytecode was changed by the relocation.
C6_Witness ==
    /\ status = "Ok"
    /\ Len(Units) = 2
    /\ Cardinality({Image.import_data_entries[k].data_section_type :
                       k \in 1..Len(Image.import_data_entries)}) >= 2
    /\ \E i, j \in 1..Len(Units[2].import_data_entries) :
           /\ Units[2].import_data_entries[i].full_name \in ExportedDataNames
           /\ Units[2].import_data_entries[j].full_name \notin ExportedDataNames
    /\ Cardinality({Units[2].export_data_entries[k].section_type :
                       k \in 1..Len(Units[2].export_data_entries)}) >= 2
    /\ Units[1].export_data_entries # <<>>
    /\ \E f \in FunctionKeys :
           f[1] = 2 /\ LinkedFunction(f).code # SourceFunction(f).code

\* C7: the merged export-data table is the read-only export-data entries of
\* the units in unit order, then the read-write ones, then the uninitialized
\* ones; each merged data section is the concatenation of the units' sections
\* in unit order; and internal_data_remap[u][i] is the position in the merged
\* table of the i-th export-data entry of unit u.
C7_ExportDataOrder ==
    status = "Ok" =>
        /\ Image.export_data_entries
               = SectionExportData("ReadOnly") \o SectionExportData("ReadWrite")
                     \o SectionExportData("Uninit")
        /\ Image.read_only_data_entries
               = Flatten([u \in UnitIndices |-> Units[u].read_only_data_entries])
        /\ Image.read_write_data_entries
               = Flatten([u \in UnitIndices |-> Units[u].read_write_data_entries])
        /\ Image.uninit_data_entries
               = Flatten([u \in UnitIndices |-> Units[u].uninit_data_entries])
        /\ \A u \in UnitIndices :
               /\ Len(remaps.internal_data_remap_indices_list[u])
                      = Len(Units[u].export_data_entries)
               /\ \A i \in 1..Len(Units[u].export_data_entries) :
                      /\ remaps.internal_data_remap_indices_list[u][i]
                             = ExpectedInternalDataIndex(u, i)
                      /\ At(Image.export_data_entries,
                            remaps.internal_data_remap_indices_list[u][i])
                             = Units[u].export_data_entries[i]

\* C7 witness: a link of two units succeeded in which both units define data,
\* the first unit in a later section than some datum of the second, so the
\* merged order is not the order of the units.
C7_Witness ==
    /\ status = "Ok"
    /\ Len(Units) = 2
    /\ \E i \in 1..Len(Units[1].export_data_entries),
          j \in 1..Len(Units[2].export_data_entries) :
           /\ SectionRank(Units[1].export_data_entries[i].section_type)
                  > SectionRank(Units[2].export_data_entries[j].section_type)
           /\ remaps.internal_data_remap_indices_list[1][i]
                  > remaps.internal_data_remap_indices_list[2][j]
    /\ Len(Image.read_only_data_entries) >= 2

\* no two entries of a table are equal
NoEqualEntries(entries) ==
    \A p, q \in 1..Len(entries) : p # q => entries[p] # entries[q]

\* a table starts with the table `first`, and each entry after those differs
\* from every entry before it
NoEqualEntriesPast(first, entries) ==
    /\ Len(entries) >= Len(first)
    /\ SubSeq(entries, 1, Len(first)) = first
    /\ \A p \in (Len(first) + 1)..Len(entries) :
           \A q \in 1..(p - 1) : entries[p] # entries[q]

\* C8 as stated: after static link, for all inputs accepted by the linker,
\* the merged type table contains no two structurally equal entries (equal
\* parameter sequence and equal result sequence); the same holds for the
\* merged local-variable-list table.
C8_NoEqualMergedEntries ==
    status = "Ok" =>
        /\ NoEqualEntries(Image.type_entries)
        /\ NoEqualEntries(Image.local_variable_list_entries)

\* C8 as amended: after static link the merged type table is the type table
\* of unit 0, copied as it is, followed by entries each of which is
\* structurally different from every entry before it; the same holds for the
\* merged local-variable-list table.  (Two equal merged entries are two equal
\* entries of unit 0.)
C8_NoEqualEntriesPastFirstUnit ==
    status = "Ok" =>
        /\ NoEqualEntriesPast(Units[1].type_entries, Image.type_entries)
        /\ NoEqualEntriesPast(Units[1].local_variable_list_entries,
                              Image.local_variable_list_entries)

\* C8 witness: a link succeeded of two units that each have two equal types,
\* and the second unit added a type to the merged table.
C8_Witness ==
    /\ status = "Ok"
    /\ Len(Units) = 2
    /\ ~NoEqualEntries(Units[1].type_entries)
    /\ ~NoEqualEntries(Units[2].type_entries)
    /\ Len(Image.type_entries) > Len(Units[1].type_entries)

\* C9: for every unit u and every type index i of u, the merged type at
\* type_remap[u][i] is structurally equal to u's type i; every linked function
\* that had type_index i (local_variable_list_index j) in u has type_index
\* type_remap[u][i] (local_variable_list_remap[u][j]) in the output; and every
\* TypeIndex / LocalVariableListIndex relocation slot is rewritten through the
\* same remap.
C9_TypeRemap ==
    status = "Ok" =>
        /\ Len(remaps.type_remap_indices_list) = Len(Units)
        /\ Len(remaps.local_variable_list_remap_indices_list) = Len(Units)
        /\ \A u \in UnitIndices :
               LET type_remap == remaps.type_remap_indices_list[u]
               IN  /\ Len(type_remap) = Len(Units[u].type_entries)
                   /\ \A i \in 1..Len(type_remap) :
                          /\ type_remap[i] \in 0..(Len(Image.type_entries) - 1)
                          /\ At(Image.type_entries, type_remap[i]).params
                                 = Units[u].type_entries[i].params
                          /\ At(Image.type_entries, type_remap[i]).results
                                 = Units[u].type_entries[i].results
        /\ \A f \in FunctionKeys :
               LET type_remap == remaps.type_remap_indices_list[f[1]]
                   local_remap == remaps.local_variable_list_remap_indices_list[f[1]]
               IN  /\ LinkedFunction(f).type_index
                          = At(type_remap, SourceFunction(f).type_index)
                   /\ LinkedFunction(f).local_variable_list_index
                          = At(local_remap, SourceFunction(f).local_variable_list_index)
                   /\ SlotsRemapped(f, "TypeIndex", type_remap)
                   /\ SlotsRemapped(f, "LocalVariableListIndex", local_remap)

\* C9 witness: a link succeeded in which the function of the second unit got
\* another type index, and a TypeIndex slot and a LocalVariableListIndex slot
\* of it another value.
C9_Witness ==
    /\ status = "Ok"
    /\ Len(Units) = 2
    /\ \E f \in FunctionKeys :
           /\ f[1] = 2
           /\ LinkedFunction(f).type_index # SourceFunction(f).type_index
           /\ \E r, t \in 1..Len(SourceRelocateEntries(f)) :
                  /\ SourceRelocateEntries(f)[r].relocate_type = "TypeIndex"
                  /\ SourceRelocateEntries(f)[t].relocate_type = "LocalVariableListIndex"
                  /\ SlotValue(LinkedFunction(f).code, SourceRelocateEntries(f)[r].code_offset)
                         # SlotValue(SourceFunction(f).code,
                                     SourceRelocateEntries(f)[r].code_offset)
                  /\ SlotValue(LinkedFunction(f).code, SourceRelocateEntries(f)[t].code_offset)
                         # SlotValue(SourceFunction(f).code,
                                     SourceRelocateEntries(f)[t].code_offset)

\* the names of the import modules of the units, unit by unit, each once, in
\* the order of first appearance
ImportModuleNames ==
    Distinct(Flatten([u \in UnitIndices |->
                         [k \in 1..Len(Units[u].import_module_entries) |->
                             Units[u].import_module_entries[k].name]]))

\* the dependencies the units declare for a module name
DeclaredDependencies(name) ==
    UNION {{Units[u].import_module_entries[k].dependency :
               k \in {j \in 1..Len(Units[u].import_module_entries) :
                         Units[u].import_module_entries[j].name = name}} :
           u \in UnitIndices}

\* version `low` is compatible with version `high` and not higher than it
CompatibleNotHigher(low, high) ==
    /\ low[1] = high[1]
    /\ low[1] = 0 => low[2] = high[2]
    /\ \/ low[2] < high[2]
       \/ low[2] = high[2] /\ low[3] <= high[3]

\* the two lists of test_merge_import_module_entries
TestedImportModules ==
    <<<<self_reference_entry, Network101, Encoding210>>,
      <<self_reference_entry, Gui134, Encoding220, Network101>>>>

\* C10: the import modules are merged by name in unit order: the merged
\* table has one entry per name in the order of first appearance (unit 0's
\* entries first, an absent name appended); the entry of a name carries the
\* highest of the compatible Share versions declared for it (a higher one
\* replaced the entry in place, an equal or lower one kept it); remap[u][i] is
\* the merged position of the entry named like unit u's entry i; and the
\* tested input yields [module, network 1.0.1, encoding 2.2.0, gui 1.3.4]
\* with the remaps [0,1,2] and [0,3,2,1].
C10_ImportModulesMergedByName ==
    /\ status = "Ok" =>
        /\ [k \in 1..Len(Image.import_module_entries) |->
               Image.import_module_entries[k].name] = ImportModuleNames
        /\ \A k \in 1..Len(Image.import_module_entries) :
               LET merged == Image.import_module_entries[k].dependency
                   declared == DeclaredDependencies(Image.import_module_entries[k].name)
               IN  /\ merged \in declared
                   /\ \A dependency \in declared :
                          \/ dependency = merged
                          \/ /\ dependency.kind = "Share"
                             /\ merged.kind = "Share"
                             /\ CompatibleNotHigher(dependency.version, merged.version)
        /\ Len(remaps.import_module_remap_indices_list) = Len(Units)
        /\ \A u \in UnitIndices :
               LET remap == remaps.import_module_remap_indices_list[u]
               IN  /\ Len(remap) = Len(Units[u].import_module_entries)
                   /\ \A i \in 1..Len(remap) :
                          /\ remap[i] \in 0..(Len(Image.import_module_entries) - 1)
                          /\ At(Image.import_module_entries, remap[i]).name
                                 = Units[u].import_module_entries[i].name
    /\ (/\ status # "Init"
        /\ [u \in UnitIndices |-> Units[u].import_module_entries] = TestedImportModules)
       => /\ status = "Ok"
          /\ Image.import_module_entries
                 = <<self_reference_entry, Network101, Encoding220, Gui134>>
          /\ remaps.import_module_remap_indices_list = <<<<0, 1, 2>>, <<0, 3, 2, 1>>>>

\* C10 witness: the tested input was linked.
C10_Witness ==
    /\ status = "Ok"
    /\ [u \in UnitIndices |-> Units[u].import_module_entries] = TestedImportModules
    /\ Len(Image.import_module_entries) = 4

\* the entries of a table (`field` of the units) that come before entry i of
\* unit u in the order of the merge and have its name: their dependencies
DeclaredBefore(field, u, i) ==
    UNION {{Units[v][field][j].dependency :
               j \in {k \in 1..Len(Units[v][field]) :
                         /\ v < u \/ (v = u /\ k < i)
                         /\ Units[v][field][k].name = Units[u][field][i].name}} :
           v \in 1..u}

\* a dependency of the set to which every other one of the set yields: the
\* others are Share dependencies of a compatible version that is not higher
Reconciled(dependencies) ==
    {d \in dependencies :
        \A e \in dependencies :
            \/ e = d
            \/ /\ e.kind = "Share"
               /\ d.kind = "Share"
               /\ CompatibleNotHigher(e.version, d.version)}

\* the entries of later units that cannot be reconciled with the entries of
\* their name before them: <<unit, position>>
ConflictKeys(field) ==
    {key \in UNION {{<<u, i>> : i \in 1..Len(Units[u][field])} : u \in UnitIndices} :
        /\ key[1] > 1
        /\ DeclaredBefore(field, key[1], key[2]) # {}
        /\ Reconciled(DeclaredBefore(field, key[1], key[2])
                          \cup {Units[key[1]][field][key[2]].dependency}) = {}}

\* the first of them in the order of the merge
FirstConflict(field) ==
    CHOOSE key \in ConflictKeys(field) :
        \A other \in ConflictKeys(field) :
            \/ key[1] < other[1]
            \/ key[1] = other[1] /\ key[2] <= other[2]

\* the error C11 names for a source dependency that meets a different merged
\* dependency of its name ("" where C11 names none)
ClaimedConflict(dependency_source, dependency_merged) ==
    CASE dependency_source.kind # dependency_merged.kind -> "DependentNameConflict"
      [] dependency_source.kind \in {"Local", "Remote"} -> "DependentSourceConflict"
      [] dependency_source.kind = "Share" -> "DependentVersionConflict"
      [] OTHER -> ""

DependencyErrorTypes ==
    {"DependentNameConflict", "DependentSourceConflict", "DependentVersionConflict"}

\* the link failed at the first conflict of a table with the error C11 names
FailedAtFirstConflict(field) ==
    LET key == FirstConflict(field)
        entry_source == Units[key[1]][field][key[2]]
        dependency_merged ==
            CHOOSE d \in Reconciled(DeclaredBefore(field, key[1], key[2])) : TRUE
        claimed == ClaimedConflict(entry_source.dependency, dependency_merged)
    IN  /\ status = "Err"
        /\ error.name = entry_source.name
        /\ error.type \in DependencyErrorTypes
        /\ claimed # "" => error.type = claimed

\* C11: when a later unit's import-module or external-library entry has the
\* name of a merged entry, an identical dependency is kept without error; two
\* Local dependencies of different paths or two Remote dependencies of
\* different sources fail with DependentSourceConflict(name); two Share
\* dependencies of conflicting versions fail with
\* DependentVersionConflict(name); and two dependencies of different variants
\* fail with DependentNameConflict(name).  The import modules are merged
\* before the import data, and these before the external libraries.
C11_DependencyConflicts ==
    status \in {"Ok", "Err"} =>
        IF ConflictKeys("import_module_entries") # {}
        THEN FailedAtFirstConflict("import_module_entries")
        ELSE IF error.type \in {"ImportDataSectionMismatch", "ImportDataSectionInconsistant",
                                "ImportDataTypeInconsistant"}
        THEN TRUE
        ELSE IF ConflictKeys("external_library_entries") # {}
        THEN FailedAtFirstConflict("external_library_entries")
        ELSE error.type \notin DependencyErrorTypes

\* C11 witness: a link failed with a source conflict at the library of a
\* later unit, the import modules being without conflict.
C11_Witness ==
    /\ status = "Err"
    /\ error = LinkerError("DependentSourceConflict", "lib")
    /\ Len(Units) >= 2
    /\ ConflictKeys("import_module_entries") = {}
    /\ Units[1].external_library_entries # <<>>

\* C11 witness: a link failed with a name conflict at the self-reference
\* entry of the second unit.
C11_WitnessName ==
    /\ status = "Err"
    /\ error = LinkerError("DependentNameConflict", "module")

\* the ordering of two numbers
Ordering(left, right) ==
    IF left > right THEN "GreaterThan" ELSE IF left < right THEN "LessThan" ELSE "Equals"

\* C12: the comparison of a new Share version against the existing one, over
\* (major, minor, patch) triples of 16-bit fields, is Conflict if the majors
\* differ; if the major is 0, Conflict when the minors differ and otherwise
\* the ordering of the patches; if the major is not 0, the ordering of the
\* minors and, on equal minors, the ordering of the patches.
C12_VersionComparison ==
    (/\ version_result \notin {"Idle", "Init"}
     /\ \A k \in 1..3 : version_left[k] \in 0..65535 /\ version_right[k] \in 0..65535)
    => version_result =
           IF version_left[1] # version_right[1] THEN "Conflict"
           ELSE IF version_left[1] = 0
           THEN IF version_left[2] # version_right[2] THEN "Conflict"
                ELSE Ordering(version_left[3], version_right[3])
           ELSE IF version_left[2] # version_right[2]
           THEN Ordering(version_left[2], version_right[2])
           ELSE Ordering(version_left[3], version_right[3])

\* C12 witness: two versions of major 0 and different minors were compared
\* and found in conflict.
C12_Witness ==
    /\ version_result = "Conflict"
    /\ version_left[1] = 0
    /\ version_right[1] = 0
    /\ version_left[2] # version_right[2]

\* C12 witness: two versions of the same major, not 0, were compared and the
\* lower minor of the new one decided against its higher patch.
C12_WitnessMinor ==
    /\ version_result = "LessThan"
    /\ version_left[1] # 0
    /\ version_left[2] < version_right[2]
    /\ version_left[3] > version_right[3]

\* ---- C13: the merged external-function table ----

\* the library and the type that unit u's i-th external function declares
ExternalLibraryOf(u, i) ==
    At(Units[u].external_library_entries,
       Units[u].external_function_entries[i].external_library_index)
ExternalTypeOf(u, i) ==
    At(Units[u].type_entries, Units[u].external_function_entries[i].type_index)

\* the external-function declarations of the link set, as <<unit, position>>
ExternalDeclarations ==
    UNION {{<<u, i>> : i \in 1..Len(Units[u].external_function_entries)} : u \in UnitIndices}

\* declarations d and e name the same function of the same library
SameExternal(d, e) ==
    /\ Units[d[1]].external_function_entries[d[2]].name
           = Units[e[1]].external_function_entries[e[2]].name
    /\ ExternalLibraryOf(d[1], d[2]).name = ExternalLibraryOf(e[1], e[2]).name

\* declaration d comes before declaration e in unit order, then table order
DeclaredEarlier(d, e) == d[1] < e[1] \/ (d[1] = e[1] /\ d[2] < e[2])

\* the first declaration of the function that declaration e names
FirstDeclaration(e) ==
    CHOOSE d \in ExternalDeclarations :
        /\ SameExternal(d, e)
        /\ \A c \in ExternalDeclarations : SameExternal(c, e) => ~DeclaredEarlier(c, d)

NoDuplicateExternal(entries) ==
    \A m, n \in 1..Len(entries) :
        (/\ entries[m].name = entries[n].name
         /\ entries[m].external_library_index = entries[n].external_library_index) => m = n

Modules == image_common_entries_input
Sorted == image_common_entries
NamesOf(entries) == [k \in 1..Len(entries) |-> entries[k].name]
SuppliedNames == {Modules[k].name : k \in 1..Len(Modules)}
Application == Modules[1].name

\* the names a module imports, the self-reference entry left out
ImportedNames(module) ==
    {module.import_module_entries[k].name :
        k \in {n \in 1..Len(module.import_module_entries) :
                  module.import_module_entries[n] # self_reference_entry}}

\* the supplied modules that import the module of a given name
Importers(name) ==
    {Modules[k].name : k \in {n \in 1..Len(Modules) : name \in ImportedNames(Modules[n])}}

AllDependenciesSupplied ==
    \A k \in 1..Len(Modules) : ImportedNames(Modules[k]) \subseteq SuppliedNames

\* the names that import paths of at most `steps` imports lead to from `from`
RECURSIVE ReachedWithin(_, _)
ReachedWithin(from, steps) ==
    IF steps = 0 THEN from
    ELSE LET before == ReachedWithin(from, steps - 1)
         IN  before \cup UNION {ImportedNames(Modules[k]) :
                                   k \in {n \in 1..Len(Modules) : Modules[n].name \in before}}

\* no supplied module reaches itself through imports
Acyclic ==
    \A k \in 1..Len(Modules) :
        Modules[k].name \notin ReachedWithin(ImportedNames(Modules[k]), Len(Modules))

Reachable == ReachedWithin({Application}, Len(Modules))

\* the length of the longest import path from the application to the module
\* of a given name; None for a module no path leads to
RECURSIVE LongestPath(_)
LongestPath(name) ==
    IF name = Application THEN 0
    ELSE LET lengths == {LongestPath(importer) : importer \in Importers(name)} \ {None}
         IN  IF lengths = {} THEN None
             ELSE 1 + CHOOSE d \in lengths : \A e \in lengths : e <= d

\* the deepth the items record for a name; None for a name without an item
RecordedDeepth(name) ==
    LET found == {k \in 1..Len(dependency_with_deepth_items) :
                     dependency_with_deepth_items[k][1] = name}
    IN  IF found = {} THEN None
        ELSE dependency_with_deepth_items[CHOOSE k \in found : TRUE][2]

TraversalEnded == sort_status \in {"Traversing", "Ok", "Err"} /\ pending_module_items = <<>>

\* C14: for an array that starts with the application, whose import graph
\* has no cycle and names supplied modules only, every module has, when the
\* traversal ends, one item at most, and the deepth of the item is the length
\* of the longest import path from the application to the module.
C14_DeepthIsLongestPath ==
    (TraversalEnded /\ Acyclic /\ AllDependenciesSupplied) =>
        /\ \A i, j \in 1..Len(dependency_with_deepth_items) :
               dependency_with_deepth_items[i][1] = dependency_with_deepth_items[j][1] => i = j
        /\ \A k \in 1..Len(dependency_with_deepth_items) :
               dependency_with_deepth_items[k][1] \in SuppliedNames
        /\ \A name \in SuppliedNames : RecordedDeepth(name) = LongestPath(name)

\* the traversal ended for a module the application imports and that a
\* longer path leads to as well
C14_Witness ==
    /\ TraversalEnded /\ Acyclic /\ AllDependenciesSupplied
    /\ \E name \in ImportedNames(Modules[1]) : RecordedDeepth(name) >= 2

PositionIn(entries, name) == CHOOSE k \in 1..Len(entries) : entries[k].name = name

\* C15 as stated: after a successful depth sort the modules stand in
\* non-decreasing deepth and a module stands before every module that
\* imports it.
C15_ImportedBeforeImporter ==
    sort_status = "Ok" =>
        /\ \A i, j \in 1..Len(Sorted) :
               i < j => RecordedDeepth(Sorted[i].name) <= RecordedDeepth(Sorted[j].name)
        /\ \A i, j \in 1..Len(Sorted) :
               Sorted[i].name \in ImportedNames(Sorted[j]) => i < j

\* C15, amended: after a successful depth sort the modules stand in
\* non-decreasing deepth and a module stands before every module that it
\* imports.
C15_ImporterBeforeImported ==
    sort_status = "Ok" =>
        /\ \A i, j \in 1..Len(Sorted) :
               i < j => RecordedDeepth(Sorted[i].name) <= RecordedDeepth(Sorted[j].name)
        /\ \A i, j \in 1..Len(Sorted) :
               Sorted[j].name \in ImportedNames(Sorted[i]) => i < j

\* a successful sort moved a module behind a module that imports it
C15_Witness ==
    /\ sort_status = "Ok"
    /\ \E i, j \in 1..Len(Modules) :
           /\ i < j
           /\ Modules[i].name \in ImportedNames(Modules[j])
           /\ PositionIn(Sorted, Modules[j].name) < PositionIn(Sorted, Modules[i].name)

\* C16: a successful depth sort keeps the application in front and keeps the
\* modules of equal deepth in the order the array had them in; the modules of
\* test_sort_modules come out as a, b, c, e, f, d, g, h, i, j.
C16_StableSort ==
    sort_status = "Ok" =>
        /\ Sorted[1] = Modules[1]
        /\ \A i, j \in 1..Len(Sorted) :
               (/\ i < j
                /\ RecordedDeepth(Sorted[i].name) = RecordedDeepth(Sorted[j].name))
               => PositionIn(Modules, Sorted[i].name) < PositionIn(Modules, Sorted[j].name)
        /\ Modules = S1Modules =>
               NamesOf(Sorted) = <<"a", "b", "c", "e", "f", "d", "g", "h", "i", "j">>

\* a successful sort changed the order of an array that has two modules of
\* equal deepth
C16_Witness ==
    /\ sort_status = "Ok"
    /\ Sorted # Modules
    /\ \E i, j \in 1..Len(Sorted) :
           i < j /\ RecordedDeepth(Sorted[i].name) = RecordedDeepth(Sorted[j].name)

\* the sort came to its end: it returned, or a comparison of its last step
\* panicked
SortEnded == sort_status \in {"Ok", "Err"} \/ (sort_status = "Panic" /\ pending_module_items = <<>>)

\* C17 as stated: a sort that comes to its end on an array with a module that
\* no import path from the application leads to returns the DanglingModule
\* error with the name of such a module and leaves the array as it was; on an
\* array of the application alone it returns Ok and leaves the array as it
\* was.
C17_DanglingModuleError ==
    /\ (SortEnded /\ AllDependenciesSupplied /\ SuppliedNames \ Reachable # {}) =>
           /\ sort_status = "Err"
           /\ sort_error.type = "DanglingModule"
           /\ sort_error.name \in SuppliedNames \ Reachable
           /\ Sorted = Modules
    /\ (SortEnded /\ Len(Modules) = 1 /\ ImportedNames(Modules[1]) = {}) =>
           sort_status = "Ok" /\ Sorted = Modules

\* the sort of an array with a module nobody imports panicked in a comparison
C17_DanglingModulePanics ==
    /\ sort_status = "Panic"
    /\ pending_module_items = <<>>
    /\ AllDependenciesSupplied
    /\ SuppliedNames \ Reachable # {}

\* ---- the image index of dynamic_link, stated on the sorted modules ----

Index == image_index_entry
SortedIndices == 1..Len(Sorted)

\* the sorted module that module m names with an import of import_module_index
NamedModules(m, import_module_index) ==
    {t \in SortedIndices :
        Sorted[t].name = At(Sorted[m].import_module_entries, import_module_index).name}

\* C18: after a successful dynamic_link the function index list of every
\* module m has one entry per import function of m, in import order, and
\* then (m, i) for every function i of m; the entry (t, k) of an import
\* names the module t that the import's import-module entry names, the
\* export-function entry k of t has the import's full name and is Public,
\* and function k of t has the type the import declares in m.  For the
\* modules of test_build_index_functions_and_data the list of app is
\* (2,0), (1,0), (2,1), (0,0), (0,1).
C18_FunctionIndexList ==
    link_status = "Ok" =>
        /\ Len(Index.function_index_list_entries) = Len(Sorted)
        /\ \A m \in SortedIndices :
               LET list == Index.function_index_list_entries[m]
                   imports == Sorted[m].import_function_entries
               IN  /\ Len(list) = Len(imports) + Len(Sorted[m].function_entries)
                   /\ \A k \in 1..Len(imports) :
                          LET t == list[k].target_module_index + 1
                              export == At(Sorted[t].export_function_entries,
                                           list[k].function_internal_index)
                              function == At(Sorted[t].function_entries,
                                             list[k].function_internal_index)
                          IN  /\ t \in NamedModules(m, imports[k].import_module_index)
                              /\ export.full_name = imports[k].full_name
                              /\ export.visibility = "Public"
                              /\ At(Sorted[t].type_entries, function.type_index)
                                     = At(Sorted[m].type_entries, imports[k].type_index)
                   /\ \A i \in 1..Len(Sorted[m].function_entries) :
                          list[Len(imports) + i] = FunctionIndexEntry(m - 1, i - 1)
        /\ Modules = S4Modules =>
               Index.function_index_list_entries[1]
                   = <<FunctionIndexEntry(2, 0), FunctionIndexEntry(1, 0),
                       FunctionIndexEntry(2, 1), FunctionIndexEntry(0, 0),
                       FunctionIndexEntry(0, 1)>>

\* a link succeeded for a module that imports functions of two modules, one
\* of them not the first export of its module
C18_Witness ==
    /\ link_status = "Ok"
    /\ \E i, j \in 1..Len(Index.function_index_list_entries[1]) :
           /\ i <= Len(Sorted[1].import_function_entries)
           /\ j <= Len(Sorted[1].import_function_entries)
           /\ Index.function_index_list_entries[1][i].target_module_index
                  # Index.function_index_list_entries[1][j].target_module_index
           /\ Index.function_index_list_entries[1][i].function_internal_index > 0

\* the export-data entries of the module that import k of module m names
\* which have the import's full name, as <<module, position>>
DataTargets(m, k) ==
    LET import == Sorted[m].import_data_entries[k]
    IN  {<<t, n>> \in SortedIndices \X (1..4) :
            /\ t \in NamedModules(m, import.import_module_index)
            /\ n <= Len(Sorted[t].export_data_entries)
            /\ Sorted[t].export_data_entries[n].full_name = import.full_name}

\* what the claim says of import datum k of module m
DataVerdict(m, k) ==
    LET import == Sorted[m].import_data_entries[k]
        targets == DataTargets(m, k)
    IN  IF targets = {} THEN "DataNotFound"
        ELSE IF \A target \in targets :
                    Sorted[target[1]].export_data_entries[target[2]].section_type
                        # import.data_section_type
        THEN "ImportDataSectionMismatch"
        ELSE IF \A target \in targets :
                    Sorted[target[1]].export_data_entries[target[2]].visibility # "Public"
        THEN "DataNotExported"
        ELSE "Ok"

DataImports ==
    {<<m, k>> \in SortedIndices \X (1..4) : k <= Len(Sorted[m].import_data_entries)}

DataErrorTypes == {"DataNotFound", "ImportDataSectionMismatch", "DataNotExported"}

\* C19: after a successful dynamic_link the data index list of every module
\* m has one entry per import datum of m, in import order, which names the
\* module, the position in its export-data table and the section of a Public
\* datum of the import's full name and section, and then (m, i, ReadOnly),
\* (m, i, ReadWrite) and (m, i, Uninit) for the data of m, section by
\* section.  A link does not succeed with an import datum whose target is
\* missing, of another section or not Public, and a link that fails with
\* DataNotFound, ImportDataSectionMismatch or DataNotExported names an import
\* datum of that kind.  For the modules of
\* test_build_index_functions_and_data the list of app is (1,0,ReadOnly),
\* (1,1,ReadOnly), (2,0,Uninit), (0,0,ReadWrite), (0,1,ReadWrite).
C19_DataIndexList ==
    /\ link_status = "Ok" =>
           /\ Len(Index.data_index_list_entries) = Len(Sorted)
           /\ \A import \in DataImports : DataVerdict(import[1], import[2]) = "Ok"
           /\ \A m \in SortedIndices :
                  LET list == Index.data_index_list_entries[m]
                      imports == Sorted[m].import_data_entries
                      read_only == Len(Sorted[m].read_only_data_entries)
                      read_write == Len(Sorted[m].read_write_data_entries)
                      uninit == Len(Sorted[m].uninit_data_entries)
                  IN  /\ Len(list) = Len(imports) + read_only + read_write + uninit
                      /\ \A k \in 1..Len(imports) :
                             /\ <<list[k].target_module_index + 1,
                                  list[k].data_internal_index + 1>> \in DataTargets(m, k)
                             /\ list[k].target_data_section_type
                                    = imports[k].data_section_type
                      /\ \A i \in 1..read_only :
                             list[Len(imports) + i] = DataIndexEntry(m - 1, i - 1, "ReadOnly")
                      /\ \A i \in 1..read_write :
                             list[Len(imports) + read_only + i]
                                 = DataIndexEntry(m - 1, i - 1, "ReadWrite")
                      /\ \A i \in 1..uninit :
                             list[Len(imports) + read_only + read_write + i]
                                 = DataIndexEntry(m - 1, i - 1, "Uninit")
           /\ Modules = S4Modules =>
                  Index.data_index_list_entries[1]
                      = <<DataIndexEntry(1, 0, "ReadOnly"), DataIndexEntry(1, 1, "ReadOnly"),
                          DataIndexEntry(2, 0, "Uninit"), DataIndexEntry(0, 0, "ReadWrite"),
                          DataIndexEntry(0, 1, "ReadWrite")>>
    /\ (link_status = "Err" /\ link_error.type \in DataErrorTypes) =>
           \E import \in DataImports :
               /\ DataVerdict(import[1], import[2]) = link_error.type
               /\ Sorted[import[1]].import_data_entries[import[2]].full_name = link_error.name

\* a link succeeded for a module that imports data of two sections and has
\* data of its own in the three sections
C19_Witness ==
    /\ link_status = "Ok"
    /\ Len(Sorted[1].import_data_entries) = 2
    /\ Sorted[1].import_data_entries[1].data_section_type
           # Sorted[1].import_data_entries[2].data_section_type
    /\ Sorted[1].read_only_data_entries # <<>>
    /\ Sorted[1].read_write_data_entries # <<>>
    /\ Sorted[1].uninit_data_entries # <<>>

\* a link failed for an import datum whose target is Private and of another
\* section
C19_WitnessError ==
    /\ link_status = "Err"
    /\ link_error.type = "ImportDataSectionMismatch"
    /\ \E import \in DataImports :
           \E target \in DataTargets(import[1], import[2]) :
               Sorted[target[1]].export_data_entries[target[2]].visibility = "Private"

\* the external functions the sorted modules declare, module by module, as
\* <<name, name of the library, type>>
ExternalsDeclared ==
    Flatten([m \in SortedIndices |->
        [k \in 1..Len(Sorted[m].external_function_entries) |->
            LET entry == Sorted[m].external_function_entries[k]
            IN  <<entry.name,
                  At(Sorted[m].external_library_entries, entry.external_library_index).name,
                  At(Sorted[m].type_entries, entry.type_index)>>]])

LibrariesDeclared ==
    Flatten([m \in SortedIndices |-> NamesOf(Sorted[m].external_library_entries)])

\* C20: after a successful dynamic_link the unified libraries are the
\* libraries of the sorted modules by name, in the order they are first seen
\* in; the unified external functions are the declarations of the modules by
\* name and library, in the order they are first seen in, each with the type
\* of its first declaration; the unified types are the types of the
\* declarations, each once, in the order they are first seen in; and the
\* external-function index list of a module gives for each of its
\* declarations the position of the function of its name and library.  For
\* the modules of test_build_index_external_functions the libraries are foo,
\* bar, hello, world, the functions x, b, m, y, n, a, p, q and the list of
\* std is 5, 1.
C20_UnifiedExternalTables ==
    link_status = "Ok" =>
        LET libraries == Index.unified_external_library_entries
            functions == Index.unified_external_function_entries
            types == Index.unified_external_type_entries
            keys == Distinct([k \in 1..Len(ExternalsDeclared) |->
                                 <<ExternalsDeclared[k][1], ExternalsDeclared[k][2]>>])
            KeyOf(entry) ==
                <<entry.name, At(libraries, entry.external_library_index).name>>
            FirstType(key) ==
                ExternalsDeclared[CHOOSE k \in 1..Len(ExternalsDeclared) :
                    /\ <<ExternalsDeclared[k][1], ExternalsDeclared[k][2]>> = key
                    /\ \A j \in 1..(k - 1) :
                           <<ExternalsDeclared[j][1], ExternalsDeclared[j][2]>> # key][3]
        IN  /\ NamesOf(libraries) = Distinct(LibrariesDeclared)
            /\ [k \in 1..Len(functions) |-> KeyOf(functions[k])] = keys
            /\ \A k \in 1..Len(functions) :
                   At(types, functions[k].type_index) = FirstType(keys[k])
            /\ types = Distinct([k \in 1..Len(ExternalsDeclared) |-> ExternalsDeclared[k][3]])
            /\ Len(Index.external_function_index_entries) = Len(Sorted)
            /\ \A m \in SortedIndices :
                   LET list == Index.external_function_index_entries[m]
                       declared == Sorted[m].external_function_entries
                   IN  /\ Len(list) = Len(declared)
                       /\ \A k \in 1..Len(declared) :
                              /\ list[k] \in 0..(Len(functions) - 1)
                              /\ KeyOf(At(functions, list[k]))
                                     = <<declared[k].name,
                                         At(Sorted[m].external_library_entries,
                                            declared[k].external_library_index).name>>
            /\ Modules = S5Modules =>
                   /\ NamesOf(libraries) = <<"foo", "bar", "hello", "world">>
                   /\ NamesOf(functions) = <<"x", "b", "m", "y", "n", "a", "p", "q">>
                   /\ Index.external_function_index_entries[3] = <<5, 1>>

\* a link succeeded for two modules that declare one external function, the
\* later module behind a function the earlier module does not declare
C20_Witness ==
    /\ link_status = "Ok"
    /\ Len(Sorted) >= 2
    /\ \E i \in 1..Len(Index.external_function_index_entries[1]) :
           \E j \in 2..Len(Index.external_function_index_entries[2]) :
               /\ Index.external_function_index_entries[1][i]
                      = Index.external_function_index_entries[2][j]
               /\ Index.external_function_index_entries[2][j]
                      < Index.external_function_index_entries[2][j - 1]

\* ---- entry points ----

\* the segments of a full name: the text between the separators "::"
RECURSIVE Segments(_)
Segments(text) ==
    LET cuts == {k \in 1..Len(text) - 1 : SubSeq(text, k, k + 1) = "::"}
    IN  IF cuts = {} THEN <<text>>
        ELSE LET k == CHOOSE c \in cuts : \A d \in cuts : c <= d
             IN  <<SubSeq(text, 1, k - 1)>> \o Segments(SubSeq(text, k + 2, Len(text)))

RECURSIVE Joined(_)
Joined(segments) ==
    IF Len(segments) = 1 THEN segments[1]
    ELSE segments[1] \o "::" \o Joined(Tail(segments))

Identifier(text) == Len(text) >= 1 /\ \A k \in 1..Len(text) : SubSeq(text, k, k) \in CharWord

\* the module the sort puts first, whose export functions are scanned
MainModule == Sorted[1]
MainExports == MainModule.export_function_entries
PublicIndex(k) == Len(MainModule.import_function_entries) + k - 1

\* {appname}::_start
IsDefaultEntry(full_name) == Segments(full_name) = <<MainModule.name, "_start">>

\* {appname}::app::(name)::_start
IsExecutableUnit(full_name) ==
    LET segments == Segments(full_name)
    IN  /\ Len(segments) = 4
        /\ segments[1] = MainModule.name /\ segments[2] = "app"
        /\ Identifier(segments[3]) /\ segments[4] = "_start"

\* {appname}::tests::(subname::test_*), subname of `depth` segments at most
IsUnitTest(full_name, depth) ==
    LET segments == Segments(full_name)
        last == segments[Len(segments)]
    IN  /\ Len(segments) >= 4 /\ Len(segments) <= 3 + depth
        /\ segments[1] = MainModule.name /\ segments[2] = "tests"
        /\ \A k \in 3..Len(segments) : Identifier(segments[k])
        /\ Len(last) > 5 /\ SubSeq(last, 1, 5) = "test_"

EntryPoint(unit_name, k) == [unit_name |-> unit_name, function_public_index |-> PublicIndex(k)]

\* the entry points an export table is to give, with unit tests in
\* submodules of `depth` segments at most
ExpectedEntryPoints(depth) ==
    LET exports == MainExports
        all == [k \in 1..Len(exports) |-> k]
        names == [k \in 1..Len(exports) |-> exports[k].full_name]
        default == Select(all, [k \in 1..Len(exports) |-> IsDefaultEntry(names[k])])
        units == Select(all, [k \in 1..Len(exports) |-> IsExecutableUnit(names[k])])
        tests == Select(all, [k \in 1..Len(exports) |-> IsUnitTest(names[k], depth)])
    IN  [n \in 1..Len(default) |-> EntryPoint("_start", default[n])]
        \o [n \in 1..Len(units) |-> EntryPoint(Segments(names[units[n]])[3], units[n])]
        \o [n \in 1..Len(tests) |->
               EntryPoint(Joined(SubSeq(Segments(names[tests[n]]), 3,
                                        Len(Segments(names[tests[n]])))), tests[n])]

\* C21 as stated: after a successful dynamic_link the entry points are
\* ("_start", import_function_count + i) for the export {appname}::_start at
\* position i, when there is one; then (name, public index) for every export
\* {appname}::app::(name)::_start in table order; then (subname::test_*,
\* public index) for every export {appname}::tests::(subname::test_*) in
\* table order, tests in nested submodules such as
\* hello::tests::common::baz::test_e included.
C21_EntryPointsNested ==
    link_status = "Ok" => Index.entry_point_entries = ExpectedEntryPoints(3)

\* C21, amended: the same, but a unit test is an export
\* {appname}::tests::(subname)::test_* whose subname is one identifier; the
\* tests of nested submodules are left out.  The module of
\* test_build_index_entry_points gives the seven entry points of the test.
C21_EntryPoints ==
    link_status = "Ok" =>
        /\ Index.entry_point_entries = ExpectedEntryPoints(1)
        /\ Modules = S6Modules =>
               Index.entry_point_entries =
                   <<[unit_name |-> "_start", function_public_index |-> 0],
                     [unit_name |-> "foo", function_public_index |-> 2],
                     [unit_name |-> "bar", function_public_index |-> 4],
                     [unit_name |-> "foo::test_a", function_public_index |-> 6],
                     [unit_name |-> "foo::test_b", function_public_index |-> 7],
                     [unit_name |-> "bar::test_c", function_public_index |-> 9],
                     [unit_name |-> "bar::test_d", function_public_index |-> 10]>>

\* a link of an application with a default entry, an executable unit, a unit
\* test and a test of a nested submodule
C21_Witness ==
    /\ link_status = "Ok"
    /\ \E k \in 1..Len(MainExports) :
           MainExports[k].full_name = "hello::tests::common::baz::test_e"
    /\ \E k \in 1..Len(Index.entry_point_entries) :
           Index.entry_point_entries[k].unit_name = "foo::test_a"
    /\ \E k \in 1..Len(Index.entry_point_entries) :
           Index.entry_point_entries[k].unit_name = "foo"
    /\ Index.entry_point_entries[1].unit_name = "_start"

\* a link of an application that imports a function and has an entry point
C21_WitnessImport ==
    /\ link_status = "Ok"
    /\ Len(MainModule.import_function_entries) = 1
    /\ Len(Index.entry_point_entries) = 2

\* ---- linking the result again ----

\* C22: static_link applied to the one-element list of the module M of a
\* successful link, with the same name and the same flag, succeeds and
\* returns M: every table is equal and the bytecode of every function is the
\* same.
C22_Idempotent ==
    [][status = "Ok" => /\ status' = "Ok"
                        /\ merged_image_common_entry' = merged_image_common_entry]_vars

\* the second link has returned a module of two units with imports left,
\* relocated calls and data
C22_Witness ==
    /\ status = "Ok"
    /\ submodule_entries = <<merged_image_common_entry>>
    /\ remaps.type_remap_indices_list # <<>>
    /\ Len(remaps.type_remap_indices_list) = 1
    /\ Len(Image.function_entries) >= 2
    /\ Len(Image.import_function_entries) >= 1
    /\ Len(Image.import_data_entries) >= 1
    /\ Len(Image.export_data_entries) >= 1
    /\ \E k \in 1..Len(Image.relocate_list_entries) :
           Image.relocate_list_entries[k].relocate_entries # <<>>

\* ---- the same modules in another order ----

\* the while loop of the depth sort, run to its end
RECURSIVE TraversalOf(_, _, _)
TraversalOf(entries, items, pending) ==
    IF pending = <<>> THEN [items |-> items, panic |-> FALSE]
    ELSE LET r == visit_dependencies(entries, Head(pending)[1].import_module_entries,
                                     items, Tail(pending), Head(pending)[2] + 1)
         IN  IF r.panic THEN [items |-> r.items, panic |-> TRUE]
             ELSE TraversalOf(entries, r.items, r.pending)

\* the depth sort and dynamic_link on an array: the status, the sorted
\* modules and the index
RunOf(entries) ==
    LET traversal == TraversalOf(entries, <<<<entries[1].name, 0>>>>, <<<<entries[1], 0>>>>)
        sorted == finish_sort(entries, traversal.items)
        linked == dynamic_link(sorted.entries, dynamic_link_module_entries_of(entries))
    IN  IF traversal.panic THEN [status |-> "Panic", sorted |-> <<>>, index |-> NoIndex]
        ELSE IF sorted.status # "Ok"
        THEN [status |-> sorted.status, sorted |-> <<>>, index |-> NoIndex]
        ELSE [status |-> linked.status, sorted |-> sorted.entries,
              index |-> linked.image_index_entry]

\* the arrays with the application of the input in front and the other
\* modules of the input behind it in some order
Reorderings ==
    {<<Modules[1]>> \o tail : tail \in Orderings(Tail(Modules))}

\* what an index says of the module of a name, with the modules its entries
\* point to given by name
FunctionListOf(run, name) ==
    LET m == PositionIn(run.sorted, name)
        list == run.index.function_index_list_entries[m]
    IN  [k \in 1..Len(list) |->
            <<At(run.sorted, list[k].target_module_index).name,
              list[k].function_internal_index>>]
DataListOf(run, name) ==
    LET m == PositionIn(run.sorted, name)
        list == run.index.data_index_list_entries[m]
    IN  [k \in 1..Len(list) |->
            <<At(run.sorted, list[k].target_module_index).name,
              list[k].data_internal_index, list[k].target_data_section_type>>]
LocationOf(run, name) ==
    run.index.dynamic_link_module_entries[PositionIn(run.sorted, name)]
ExternalListOf(run, name) ==
    run.index.external_function_index_entries[PositionIn(run.sorted, name)]

\* the external functions the list of a module points to, as
\* <<name, name of the library>>
ExternalNamesOf(run, name) ==
    LET list == ExternalListOf(run, name)
        functions == run.index.unified_external_function_entries
        libraries == run.index.unified_external_library_entries
    IN  [k \in 1..Len(list) |->
            <<At(functions, list[k]).name,
              At(libraries, At(functions, list[k]).external_library_index).name>>]
ExternalKeys(run) ==
    LET functions == run.index.unified_external_function_entries
        libraries == run.index.unified_external_library_entries
    IN  {<<functions[k].name, At(libraries, functions[k].external_library_index).name>> :
            k \in 1..Len(functions)}
Members(v) == {v[k] : k \in 1..Len(v)}

ThisRun ==
    [status |-> link_status, sorted |-> Sorted, index |-> Index]

\* two runs give the same lists per module, the same entry points and the
\* same locations
SameModuleLists(left, right) ==
    /\ right.status = "Ok"
    /\ Members(NamesOf(right.sorted)) = Members(NamesOf(left.sorted))
    /\ right.index.entry_point_entries = left.index.entry_point_entries
    /\ \A name \in Members(NamesOf(left.sorted)) :
           /\ FunctionListOf(right, name) = FunctionListOf(left, name)
           /\ DataListOf(right, name) = DataListOf(left, name)
           /\ LocationOf(right, name) = LocationOf(left, name)

\* C23 as stated: when the depth sort and dynamic_link succeed on an array,
\* they succeed on every array with the same application in front and the
\* same other modules in another order, and the two index entries are the
\* same but for the order of the modules: the lists of a module are the same
\* with their target modules given by name, and the entry points, the
\* unified external tables and the external-function index list of every
\* module are the same.
C23_SameIndexInAnyOrder ==
    link_status = "Ok" =>
        \A other \in Reorderings :
            LET run == RunOf(other)
            IN  /\ SameModuleLists(ThisRun, run)
                /\ run.index.unified_external_library_entries
                       = Index.unified_external_library_entries
                /\ run.index.unified_external_type_entries
                       = Index.unified_external_type_entries
                /\ run.index.unified_external_function_entries
                       = Index.unified_external_function_entries
                /\ \A name \in Members(NamesOf(Sorted)) :
                       ExternalListOf(run, name) = ExternalListOf(ThisRun, name)

\* C23, amended: when the depth sort and dynamic_link succeed on an array,
\* they succeed on every array with the same application in front and the
\* same other modules in another order; the function and data index lists of
\* every module are the same with their target modules given by name, and so
\* are the entry points and the location of every module; the unified
\* external libraries are the same by name and the unified external
\* functions the same by name and library, and the external-function index
\* list of every module points to the same functions by name and library.
\* The order of the unified tables, and the type of a function declared with
\* different types, follow the order of the sorted modules.
C23_SameIndexUpToTableOrder ==
    link_status = "Ok" =>
        \A other \in Reorderings :
            LET run == RunOf(other)
            IN  /\ SameModuleLists(ThisRun, run)
                /\ Members(NamesOf(run.index.unified_external_library_entries))
                       = Members(NamesOf(Index.unified_external_library_entries))
                /\ ExternalKeys(run) = ExternalKeys(ThisRun)
                /\ \A name \in Members(NamesOf(Sorted)) :
                       ExternalNamesOf(run, name) = ExternalNamesOf(ThisRun, name)

\* a link succeeded on three modules of which the two shared ones have the
\* same deepth and declare different libraries
C23_Witness ==
    /\ link_status = "Ok"
    /\ Len(Sorted) = 3
    /\ RecordedDeepth(Sorted[2].name) = RecordedDeepth(Sorted[3].name)
    /\ Sorted[2].external_library_entries # <<>>
    /\ Sorted[3].external_library_entries # <<>>
    /\ Sorted[2].external_library_entries[1].name # Sorted[3].external_library_entries[1].name
    /\ Len(Index.function_index_list_entries[1]) = 3

\* ---- imports of data that a unit defines ----

\* the data of a unit that lie in a section
SectionData(unit, section) ==
    CASE section = "ReadOnly" -> unit.read_only_data_entries
      [] section = "ReadWrite" -> unit.read_write_data_entries
      [] section = "Uninit" -> unit.uninit_data_entries

\* the <<section, memory data type>> of the data the units export under a name
ExportedAs(full_name) ==
    {<<Units[u].export_data_entries[k].section_type,
       SectionData(Units[u], Units[u].export_data_entries[k].section_type)
           [1 + Cardinality({j \in 1..(k - 1) :
                    Units[u].export_data_entries[j].section_type
                        = Units[u].export_data_entries[k].section_type})].memory_data_type>> :
        <<u, k>> \in {<<v, n>> \in UnitIndices \X (1..4) :
                         /\ n <= Len(Units[v].export_data_entries)
                         /\ Units[v].export_data_entries[n].full_name = full_name}}

DataImportType(k) == Units[k[1]].import_data_entries[k[2]].memory_data_type
ImportsOfExports == {k \in DataImportKeys : DataImportName(k) \in ExportedDataNames}
SectionMismatches ==
    {k \in ImportsOfExports :
        \A e \in ExportedAs(DataImportName(k)) : e[1] # DataImportSection(k)}
TypeMismatches ==
    {k \in ImportsOfExports \ SectionMismatches :
        \A e \in ExportedAs(DataImportName(k)) : e[2] # DataImportType(k)}

\* C24 as stated: a link with an import of a datum that a unit exports
\* succeeds only if the section and the memory data type of every such
\* import are those of the export; with an import of another section it
\* fails with ImportDataSectionMismatch, and with an import of another
\* memory data type, and none of another section, with
\* ImportDataTypeMismatch.
C24_ImportOfExportVerified ==
    status \in {"Ok", "Err"} =>
        /\ status = "Ok" => SectionMismatches = {} /\ TypeMismatches = {}
        /\ SectionMismatches # {} =>
               status = "Err" /\ error.type = "ImportDataSectionMismatch"
        /\ (SectionMismatches = {} /\ TypeMismatches # {}) =>
               status = "Err" /\ error.type = "ImportDataTypeMismatch"

\* a link succeeded with an import whose memory data type is not that of
\* the datum a unit exports under its name
C24_TypeMismatchAccepted ==
    /\ status = "Ok"
    /\ TypeMismatches # {}
    /\ Image.import_data_entries = <<>>

\* what the code does for the section: with an import of a section other
\* than that of the export the link fails with ImportDataSectionMismatch of
\* the first such import in the order section, unit, position
C24_SectionMismatchReported ==
    /\ status = "Err"
    /\ error.type = "ImportDataSectionMismatch"
    /\ \E k \in SectionMismatches : error.name = DataImportName(k)

\* ---- imports of data that no unit defines ----

ImportsOfOthers == {k \in DataImportKeys : DataImportName(k) \notin ExportedDataNames}

\* the first import of the name of k in the order the merge visits the imports
FirstImportOf(k) ==
    CHOOSE j \in ImportsOfOthers :
        /\ DataImportName(j) = DataImportName(k)
        /\ \A i \in ImportsOfOthers :
               DataImportName(i) = DataImportName(k) => i = j \/ DataImportBefore(j, i)

SectionInconsistencies ==
    {k \in ImportsOfOthers : DataImportSection(k) # DataImportSection(FirstImportOf(k))}
TypeInconsistencies ==
    {k \in ImportsOfOthers \ SectionInconsistencies :
        DataImportType(k) # DataImportType(FirstImportOf(k))}
DataOffenders == SectionMismatches \cup SectionInconsistencies \cup TypeInconsistencies
FirstDataOffender ==
    CHOOSE k \in DataOffenders : \A j \in DataOffenders : j = k \/ DataImportBefore(k, j)

\* the entry of the merged import-data table that the import k is remapped to
MergedDataImport(k) ==
    At(Image.import_data_entries,
       At(remaps.data_public_remap_indices_list[k[1]], k[2] - 1))

\* C25: of the imports of a name that no unit exports, the first in the
\* order of the merge is appended to the merged table with its name, section
\* and memory data type and with its import module index translated through
\* the import-module remap of its unit, and a later one is remapped to the
\* entry of the first when section and memory data type agree; a later one
\* of another section fails the link with ImportDataSectionInconsistant of
\* its name, and one of another memory data type with
\* ImportDataTypeInconsistant of its name, when no import fails before it.
C25_ImportOfImportedName ==
    (status \in {"Ok", "Err"} /\ error.type \notin DependencyErrorTypes) =>
        /\ status = "Ok" =>
               /\ SectionInconsistencies = {} /\ TypeInconsistencies = {}
               /\ \A k \in ImportsOfOthers :
                      LET first == FirstImportOf(k)
                          source == Units[first[1]].import_data_entries[first[2]]
                      IN  /\ At(remaps.data_public_remap_indices_list[k[1]], k[2] - 1)
                                 < Len(Image.import_data_entries)
                          /\ MergedDataImport(k) = MergedDataImport(first)
                          /\ MergedDataImport(k) =
                                 [source EXCEPT !.import_module_index =
                                     At(remaps.import_module_remap_indices_list[first[1]],
                                        source.import_module_index)]
        /\ DataOffenders # {} =>
               /\ status = "Err"
               /\ error =
                      LinkerError(
                          IF FirstDataOffender \in SectionMismatches
                          THEN "ImportDataSectionMismatch"
                          ELSE IF FirstDataOffender \in SectionInconsistencies
                          THEN "ImportDataSectionInconsistant"
                          ELSE "ImportDataTypeInconsistant",
                          DataImportName(FirstDataOffender))

\* a link succeeded in which two units import one name that no unit exports
\* and the import module of the name has another index in the merged table
C25_Witness ==
    /\ status = "Ok"
    /\ \E j, k \in ImportsOfOthers :
           /\ j[1] # k[1]
           /\ DataImportName(j) = DataImportName(k)
           /\ MergedDataImport(j).import_module_index
                  # Units[j[1]].import_data_entries[j[2]].import_module_index

\* a link failed at an import of another section than the first of its name
C25_WitnessSection ==
    /\ status = "Err"
    /\ error.type = "ImportDataSectionInconsistant"
    /\ SectionInconsistencies # {}

\* a link failed at an import of another memory data type than the first of
\* its name
C25_WitnessType ==
    /\ status = "Err"
    /\ error.type = "ImportDataTypeInconsistant"
    /\ TypeInconsistencies # {}

\* ---- imports of functions that fail ----

\* what the import k of the sorted module m comes to: "" when the module it
\* names exports its full name with the visibility Public and with its
\* type, the type of the error otherwise
FunctionVerdict(m, k) ==
    LET import == Sorted[m].import_function_entries[k]
        target == Sorted[CHOOSE t \in NamedModules(m, import.import_module_index) : TRUE]
        exports == {n \in 1..Len(target.export_function_entries) :
                       target.export_function_entries[n].full_name = import.full_name}
        first == CHOOSE n \in exports : \A e \in exports : n <= e
    IN  IF exports = {} THEN "FunctionNotFound"
        ELSE IF target.export_function_entries[first].visibility # "Public"
        THEN "FunctionNotExported"
        ELSE IF At(Sorted[m].type_entries, import.type_index)
                    # At(target.type_entries, target.function_entries[first].type_index)
        THEN "ImportFunctionTypeMismatch"
        ELSE ""

FunctionImports ==
    UNION {{<<m, k>> : k \in 1..Len(Sorted[m].import_function_entries)} : m \in SortedIndices}
FailingFunctionImports == {i \in FunctionImports : FunctionVerdict(i[1], i[2]) # ""}
FirstFailingFunctionImport ==
    CHOOSE i \in FailingFunctionImports :
        \A j \in FailingFunctionImports :
            i[1] < j[1] \/ (i[1] = j[1] /\ i[2] <= j[2])
FunctionErrorTypes == {"FunctionNotFound", "FunctionNotExported", "ImportFunctionTypeMismatch"}

\* C26: dynamic_link fails with the error of the first import function, in
\* the order of the sorted modules and then of the imports of a module, that
\* does not resolve: FunctionNotFound when the module it names has no export
\* of its full name, FunctionNotExported when the export is not Public,
\* ImportFunctionTypeMismatch when the export is Public and the type of the
\* function is not that of the import; each with the full name of the
\* import.  It reports none of the three when every import resolves.
C26_FirstFailingImportFunction ==
    link_status \in {"Ok", "Err"} =>
        IF FailingFunctionImports # {}
        THEN /\ link_status = "Err"
             /\ link_error =
                    LinkerError(FunctionVerdict(FirstFailingFunctionImport[1],
                                                FirstFailingFunctionImport[2]),
                                Sorted[FirstFailingFunctionImport[1]]
                                    .import_function_entries[FirstFailingFunctionImport[2]]
                                    .full_name)
        ELSE link_error.type \notin FunctionErrorTypes

\* a link failed with imports that do not resolve in two modules and with
\* two kinds of failure
C26_Witness ==
    /\ link_status = "Err"
    /\ \E i, j \in FailingFunctionImports :
           /\ i[1] < j[1]
           /\ FunctionVerdict(i[1], i[2]) # FunctionVerdict(j[1], j[2])
    /\ link_error.type = "FunctionNotExported"

\* a link failed with ImportFunctionTypeMismatch
C26_WitnessType ==
    /\ link_status = "Err"
    /\ link_error.type = "ImportFunctionTypeMismatch"

\* a link failed with FunctionNotFound in the second of the sorted modules
C26_WitnessLaterModule ==
    /\ link_status = "Err"
    /\ link_error.type = "FunctionNotFound"
    /\ FailingFunctionImports # {}
    /\ FirstFailingFunctionImport[1] = 2

\* ---- the end of the depth traversal ----

\* the deepth the given items record for a name; None without an item
DeepthIn(items, name) ==
    LET found == {k \in 1..Len(items) : items[k][1] = name}
    IN  IF found = {} THEN None ELSE items[CHOOSE k \in found : TRUE][2]

\* the items a turn of the while loop put on the queue
Enqueued ==
    SubSeq(pending_module_items', Len(pending_module_items), Len(pending_module_items'))

\* a turn of the while loop puts a module on the queue only with the deepth
\* it has just been recorded with, and only if it had no item or an item of
\* a smaller deepth
EnqueuedAreRaised ==
    (sort_status = "Traversing" /\ pending_module_items # <<>>
        /\ pending_module_items' # pending_module_items) =>
        /\ SubSeq(pending_module_items', 1, Len(pending_module_items) - 1)
               = Tail(pending_module_items)
        /\ \A k \in 1..Len(Enqueued) :
               /\ RecordedDeepth(Enqueued[k][1].name) < Enqueued[k][2]
               /\ DeepthIn(dependency_with_deepth_items', Enqueued[k][1].name)
                      >= Enqueued[k][2]
        /\ \A k, n \in 1..Len(Enqueued) : Enqueued[k][1].name = Enqueued[n][1].name => k = n

\* the deepths on the queue are lengths of import paths at most
QueueBounded ==
    (Acyclic /\ sort_status = "Traversing") =>
        \A k \in 1..Len(pending_module_items) :
            pending_module_items[k][2] <= LongestPath(pending_module_items[k][1].name)

\* C27: on an array whose import graph has no cycle the traversal ends: the
\* queue becomes empty when every import names a supplied module, and the
\* traversal ends with the queue empty or with the failed lookup of a module
\* that was not supplied otherwise.  A turn puts a module on the queue only
\* when it is first seen or its deepth is raised, and no deepth on the queue
\* exceeds the longest import path to its module.
C27_TraversalTerminates ==
    /\ (Acyclic /\ AllDependenciesSupplied) ~> (pending_module_items = <<>>)
    /\ Acyclic ~> (pending_module_items = <<>> \/ sort_status = "Panic")
    /\ [][EnqueuedAreRaised]_vars
    /\ []QueueBounded

\* the traversal of an array of three or more modules without a cycle ended
\* after a module the application imports was put on the queue again
C27_Witness ==
    /\ Acyclic /\ AllDependenciesSupplied
    /\ Len(Modules) >= 3
    /\ sort_status = "Traversing" /\ pending_module_items = <<>>
    /\ \E name \in ImportedNames(Modules[1]) : RecordedDeepth(name) >= 2

\* on an array with a cycle the deepths go on being raised
C27_WitnessCycle ==
    /\ ~Acyclic
    /\ pending_module_items # <<>>
    /\ Head(pending_module_items)[2] = MaxDeepth

\* ---- the deepths while the traversal runs ----

\* the lengths of the import paths from the application to the module of a
\* given name, in a graph without a cycle
RECURSIVE PathLengths(_)
PathLengths(name) ==
    (IF name = Application THEN {0} ELSE {})
        \cup UNION {{length + 1 : length \in PathLengths(importer)} :
                       importer \in Importers(name)}

\* no step lowers the deepth recorded for a name or drops its item
DeepthsNeverDecrease ==
    \A k \in 1..Len(dependency_with_deepth_items) :
        DeepthIn(dependency_with_deepth_items', dependency_with_deepth_items[k][1])
            >= dependency_with_deepth_items[k][2]

\* in a graph without a cycle the application is recorded with 0 and every
\* other deepth is the length of an import path from the application
DeepthsArePathLengths ==
    Acyclic =>
        /\ RecordedDeepth(Application) = 0
        /\ \A k \in 1..Len(dependency_with_deepth_items) :
               /\ dependency_with_deepth_items[k][2]
                      \in PathLengths(dependency_with_deepth_items[k][1])
               /\ dependency_with_deepth_items[k][2]
                      <= LongestPath(dependency_with_deepth_items[k][1])

\* C28: from one step of the depth traversal to the next no recorded deepth
\* decreases; on an import graph without a cycle, as the depth sort requires,
\* the deepth of the application stays 0 and every recorded deepth is the
\* length of an import path from the application to the module, hence the
\* length of the longest such path at most.
C28_DeepthsGrowAlongPaths ==
    /\ [][DeepthsNeverDecrease]_vars
    /\ []DeepthsArePathLengths

\* in the middle of a traversal a module that paths of two lengths lead to
\* is recorded with the longer one
C28_Witness ==
    /\ Acyclic
    /\ sort_status = "Traversing" /\ pending_module_items # <<>>
    /\ \E k \in 1..Len(dependency_with_deepth_items) :
           /\ Cardinality(PathLengths(dependency_with_deepth_items[k][1])) >= 2
           /\ dependency_with_deepth_items[k][2] >= 2

\* in the middle of a traversal a module is recorded with the length of a
\* path that is not the longest
C28_WitnessShorter ==
    /\ Acyclic
    /\ sort_status = "Traversing"
    /\ \E k \in 1..Len(dependency_with_deepth_items) :
           dependency_with_deepth_items[k][2] < LongestPath(dependency_with_deepth_items[k][1])

\* ---- the three tables of the linked functions ----

FunctionCount == Len(Flatten([u \in UnitIndices |-> Units[u].function_entries]))

\* the linked function, export entry and relocation list at the place of
\* the function f come from f
DerivedFrom(f) ==
    LET k == FunctionsBefore(f[1]) + f[2]
        unit == Units[f[1]]
    IN  /\ Image.export_function_entries[k] = unit.export_function_entries[f[2]]
        /\ Image.relocate_list_entries[k] = unit.relocate_list_entries[f[2]]
        /\ At(Image.type_entries, Image.function_entries[k].type_index)
               = At(unit.type_entries, SourceFunction(f).type_index)
        /\ At(Image.local_variable_list_entries,
              Image.function_entries[k].local_variable_list_index)
               = At(unit.local_variable_list_entries,
                    SourceFunction(f).local_variable_list_index)
        /\ Len(Image.function_entries[k].code) = Len(SourceFunction(f).code)
        /\ \A b \in (1..Len(SourceFunction(f).code)) \ SlotBytes(f) :
               Image.function_entries[k].code[b] = SourceFunction(f).code[b]
        /\ At(remaps.internal_function_remap_indices_list[f[1]], f[2] - 1) = k - 1
        /\ At(remaps.function_public_remap_indices_list[f[1]],
              Len(unit.import_function_entries) + f[2] - 1)
               = Len(Image.import_function_entries) + k - 1

\* C29: after static_link the function table holds one function per function
\* of the units, unit by unit and function by function; the export-function
\* table and the relocation list are as long, and the entries of the three
\* at one place come from one function, so that the public index "number of
\* merged imports + k" is the function the export entry k names.
C29_FunctionTablesParallel ==
    status = "Ok" =>
        /\ Len(Image.function_entries) = FunctionCount
        /\ Len(Image.export_function_entries) = FunctionCount
        /\ Len(Image.relocate_list_entries) = FunctionCount
        /\ \A f \in FunctionKeys : DerivedFrom(f)

\* a link of two units with functions of different bytecode succeeded, the
\* second unit having two functions
C29_Witness ==
    /\ status = "Ok"
    /\ Len(Units) = 2
    /\ Len(Units[1].function_entries) >= 1
    /\ Len(Units[2].function_entries) = 2
    /\ Units[2].function_entries[1].code # Units[2].function_entries[2].code
    /\ Len(Units[1].function_entries[1].code) # Len(Units[2].function_entries[1].code)
    /\ Image.import_function_entries # <<>>

\* ---- the index entry of an imported datum and that of the datum itself ----

\* the export-data entries of the sorted module t that have the full name of
\* the import datum k of m, as 1-based positions
ExportsOfImportDatum(m, k) ==
    {<<t, n>> \in SortedIndices \X (1..6) :
        /\ t \in NamedModules(m, Sorted[m].import_data_entries[k].import_module_index)
        /\ n <= Len(Sorted[t].export_data_entries)
        /\ Sorted[t].export_data_entries[n].full_name
               = Sorted[m].import_data_entries[k].full_name}

\* the entry the data index list of t holds for its own datum of the export
\* entry n: the module, the number of the datum in its section, the section
InternalEntryOf(t, n) ==
    LET section_type == Sorted[t].export_data_entries[n].section_type
        before == {b \in 1..(n - 1) :
                      Sorted[t].export_data_entries[b].section_type = section_type}
    IN  DataIndexEntry(t - 1, Cardinality(before), section_type)

\* C30 as stated: in the image index of a successful dynamic_link the entry
\* of an import datum of m is the entry that the data index list of the
\* target module holds for that datum as its own: the module, the number of
\* the datum in its section, and the section.
C30_ImportEntryIsInternalEntry ==
    link_status = "Ok" =>
        \A m \in SortedIndices :
            \A k \in 1..Len(Sorted[m].import_data_entries) :
                \E target \in ExportsOfImportDatum(m, k) :
                    /\ Index.data_index_list_entries[m][k]
                           = InternalEntryOf(target[1], target[2])
                    /\ \E i \in 1..Len(Index.data_index_list_entries[target[1]]) :
                           /\ i > Len(Sorted[target[1]].import_data_entries)
                           /\ Index.data_index_list_entries[target[1]][i]
                                  = Index.data_index_list_entries[m][k]

\* a link succeeded with the entry of an import datum that numbers the datum
\* by its place in the export-data table of the target, which data of an
\* earlier section make larger than its number in its section
C30_ImportEntryCountsAllSections ==
    /\ link_status = "Ok"
    /\ \E m \in SortedIndices :
           \E k \in 1..Len(Sorted[m].import_data_entries) :
               \E target \in ExportsOfImportDatum(m, k) :
                   /\ Index.data_index_list_entries[m][k]
                          = DataIndexEntry(target[1] - 1, target[2] - 1,
                                           Sorted[target[1]].export_data_entries[target[2]]
                                               .section_type)
                   /\ InternalEntryOf(target[1], target[2]).data_internal_index
                          < target[2] - 1

====
